---- MODULE Spec2Model ----
(***************************************************************************)
(* A-SABR: schedule-aware bundle routing.  The model covers the contact    *)
(* managers (EVL, QD), the multigraph with its lazy-prune cursors, the     *)
(* node-parenting and contact-parenting Dijkstra procedures, the           *)
(* limiting-contact wrappers, the tree cache, the routing table, the       *)
(* dry-run / schedule traversals and the SPSN and CGR routers.             *)
(* Dates, durations and volumes are f32 in the source; the model uses      *)
(* integers and plans whose rates divide the bundle sizes.                 *)
(***************************************************************************)
EXTENDS Integers, Sequences, FiniteSets, TLC

\* ------------------------------------------------------------------ bounds
NodeCount == 4
MaxCalls == 2

\* Date::MAX (f32::MAX) of the source
DateMax == 1000

Nodes == 0..(NodeCount - 1)

Min(a, b) == IF a < b THEN a ELSE b
Max(a, b) == IF a > b THEN a ELSE b

\* Bind(v, K) is K applied to v: the value of an intermediate result is
\* computed once and named by the parameter of K, as a `let` of the source.
Bind(v, K(_)) == K(v)

\* ------------------------------------------------------------ contact plans
MkContact(tx, rx, start, end, rate, delay) ==
    [tx |-> tx, rx |-> rx, start |-> start, end |-> end, rate |-> rate, delay |-> delay]

\* Each plan is listed in the order Multigraph::new sorts it: (tx, rx, start).
PlanNoPath ==
    << MkContact(0, 1, 0, 10, 1, 0),
       MkContact(1, 2, 20, 30, 1, 0) >>

PlanAccuracy ==
    << MkContact(0, 1, 0, 40, 1, 0),
       MkContact(0, 2, 25, 40, 1, 0),
       MkContact(1, 2, 10, 40, 1, 0),
       MkContact(2, 3, 30, 40, 1, 0) >>

PlanCapacity ==
    << MkContact(0, 1, 0, 3, 1, 1),
       MkContact(0, 1, 5, 9, 1, 1),
       MkContact(0, 2, 1, 2, 1, 0),
       MkContact(1, 2, 2, 6, 2, 0),
       MkContact(1, 3, 3, 14, 1, 0),
       MkContact(2, 3, 13, 15, 2, 0) >>

\* the route 0 -> 1 -> 3 ends first on its first contact and runs out of
\* volume on its second one; a second contact 0 -> 1 opens when the first ended
PlanLimiting ==
    << MkContact(0, 1, 0, 10, 1, 0),
       MkContact(0, 1, 11, 14, 1, 0),
       MkContact(1, 2, 0, 30, 1, 0),
       MkContact(1, 3, 18, 20, 1, 0),
       MkContact(2, 3, 25, 40, 1, 0) >>

Plans == << PlanNoPath, PlanAccuracy, PlanCapacity, PlanLimiting >>

\* node 3 is reached directly late, over node 1 earlier and over node 2 first
PlanPareto ==
    << MkContact(0, 1, 0, 40, 1, 0),
       MkContact(0, 2, 3, 40, 1, 0),
       MkContact(0, 3, 20, 40, 1, 0),
       MkContact(1, 3, 10, 40, 1, 0),
       MkContact(2, 3, 5, 40, 1, 0) >>

\* node 1 and node 2 have a contact back to node 0
PlanReturn ==
    << MkContact(0, 1, 0, 40, 1, 0),
       MkContact(1, 0, 0, 40, 1, 0),
       MkContact(1, 2, 5, 40, 1, 0),
       MkContact(2, 0, 5, 40, 1, 0),
       MkContact(2, 3, 5, 40, 1, 0) >>

\* the plans a router is built on, then the plans of the pathfinding runs
AllPlans == Plans \o << PlanPareto, PlanReturn >>

\* ------------------------------------------------------------------- state
VARIABLES
    cfg,              \* plan, manager type, router type chosen at construction
    now,              \* the largest current_time passed to route so far
    calls,            \* number of route calls made
    queue_size,       \* per contact: manager.queue_size (booked volume)
    committed,        \* per contact: total size of the transmissions committed
    suppressed,       \* per contact: Contact.suppressed
    work_area,        \* per contact: Contact.work_area (0 = None)
    excluded,         \* per node: NodeInfo.excluded
    next,             \* per (tx, rx): Receiver.next
    trees,            \* TreeCache.trees
    tables,           \* RoutingTable.tables
    suppression_map,  \* limiting_contact: per destination, suppressed contacts
    next_to_suppress, \* pathfinding/mod.rs wrapper: next contact to suppress
    known_limits,     \* Guard.known_limits
    last,             \* what the last route call was given and returned
    prev,             \* the same for the route call before the last one
    mpt,              \* the work of an Mpt pathfinder's get_next
    cm                \* one contact under its manager, outside any router

vars == << cfg, now, calls, queue_size, committed, suppressed, work_area, excluded,
           next, trees, tables, suppression_map, next_to_suppress, known_limits, last,
           prev, mpt, cm >>

CP == AllPlans[cfg.plan]
ContactIds == 1..Len(CP)

\* ------------------------------------------------------- contact managers
NoTx == [ok |-> FALSE, tx_start |-> 0, tx_end |-> 0, delay |-> 0,
         expiration |-> 0, arrival |-> DateMax]

original_volume(info) == (info.end - info.start) * info.rate

\* A manager that transmits from the start of the contact, whenever the
\* bundle is at the sender.
dry_run_tx_at_start(mgr, info, at_time, bundle, q) ==
    LET tx_end == info.start + (bundle.size \div info.rate)
    IN  IF bundle.size > original_volume(info) - q \/ tx_end > info.end THEN NoTx
        ELSE [ok |-> TRUE, tx_start |-> info.start, tx_end |-> tx_end,
              delay |-> info.delay, expiration |-> info.end,
              arrival |-> info.delay + tx_end]

\* A manager that never compares the bundle's size with the volume left.
dry_run_tx_any_volume(mgr, info, at_time, bundle, q) ==
    LET base == IF info.start > at_time THEN info.start ELSE at_time
        tx_start == IF mgr = "EVL" THEN base ELSE base + (q \div info.rate)
        tx_end == tx_start + (bundle.size \div info.rate)
    IN  IF tx_end > info.end THEN NoTx
        ELSE [ok |-> TRUE, tx_start |-> tx_start, tx_end |-> tx_end,
              delay |-> info.delay, expiration |-> info.end,
              arrival |-> info.delay + tx_end]

\* generate_basic_volume_manager: EVL = (add_delay false, auto_update true),
\* QD = (add_delay true, auto_update true), ETO = (add_delay true, auto_update
\* false).  "QD" is contact_manager/mod.rs, "QDLegacy" is
\* contact_manager/legacy/mod.rs.
dry_run_tx(mgr, info, at_time, bundle, q) ==
    IF bundle.size > original_volume(info) - q THEN NoTx
    ELSE LET contact_start == IF mgr = "QDLegacy"
                              THEN info.start + (q \div info.rate)
                              ELSE info.start
             base == IF contact_start > at_time THEN contact_start ELSE at_time
             tx_start == IF mgr \in {"QD", "ETO"} THEN base + (q \div info.rate)
                         ELSE base
             tx_end == tx_start + (bundle.size \div info.rate)
         IN  IF tx_end > info.end THEN NoTx
             ELSE [ok |-> TRUE, tx_start |-> tx_start, tx_end |-> tx_end,
                   delay |-> info.delay, expiration |-> info.end,
                   arrival |-> info.delay + tx_end]

\* A manager with auto_update = false: schedule_tx leaves the queue alone.
schedule_tx_no_update(mgr, info, at_time, bundle, q) ==
    [data |-> dry_run_tx(mgr, info, at_time, bundle, q), queue_size |-> q]

\* A manager that adds the bundle to the queue before it places the transmission.
schedule_tx_queue_first(mgr, info, at_time, bundle, q) ==
    Bind(dry_run_tx(mgr, info, at_time, bundle, q + bundle.size), LAMBDA data :
         [data |-> data, queue_size |-> IF data.ok THEN q + bundle.size ELSE q])

\* generate_basic_volume_manager: schedule_tx
schedule_tx(mgr, info, at_time, bundle, q) ==
    Bind(dry_run_tx(mgr, info, at_time, bundle, q), LAMBDA data :
         [data |-> data,
          queue_size |-> IF data.ok /\ mgr # "ETO" THEN q + bundle.size ELSE q])

\* ------------------------------------- contact managers outside the routers
\* The managers the macros are instantiated as.  "basic" is
\* generate_basic_volume_manager of contact_manager/mod.rs, "legacy_basic" the
\* macro of the same name of contact_manager/legacy/mod.rs, "prio" is
\* generate_prio_volume_manager, "seg" the SegmentationManager.
MkManager(name, macro, add_delay, auto_update, prio_count) ==
    [name |-> name, macro |-> macro, add_delay |-> add_delay,
     auto_update |-> auto_update, prio_count |-> prio_count]

Managers ==
    { MkManager("EVL", "basic", FALSE, TRUE, 1),
      MkManager("QD", "basic", TRUE, TRUE, 1),
      MkManager("ETO", "basic", TRUE, FALSE, 1),
      MkManager("QDLegacy", "legacy_basic", TRUE, TRUE, 1),
      MkManager("legacy::EVLManager", "prio", FALSE, TRUE, 1),
      MkManager("legacy::PEVLManager", "prio", FALSE, TRUE, 3),
      MkManager("legacy::QDManager", "prio", TRUE, TRUE, 1),
      MkManager("legacy::ETOManager", "prio", TRUE, FALSE, 1),
      MkManager("legacy::PETOManager", "prio", TRUE, FALSE, 3),
      MkManager("SEG", "seg", FALSE, TRUE, 1) }

\* generate_prio_volume_manager: dry_run_tx; qs[p + 1] is the code's
\* queue_size[p]
prio_dry_run_tx(m, info, at_time, bundle, qs) ==
    LET q == qs[bundle.priority + 1]
        contact_start == IF m.auto_update /\ m.add_delay
                         THEN info.start + (q \div info.rate) ELSE info.start
        base == IF contact_start > at_time THEN contact_start ELSE at_time
        tx_start == IF ~m.auto_update /\ m.add_delay
                    THEN base + (q \div info.rate) ELSE base
        tx_end == tx_start + (bundle.size \div info.rate)
    IN  IF bundle.size > original_volume(info) - q \/ tx_end > info.end THEN NoTx
        ELSE [ok |-> TRUE, tx_start |-> tx_start, tx_end |-> tx_end,
              delay |-> info.delay, expiration |-> info.end,
              arrival |-> info.delay + tx_end]

\* generate_prio_volume_manager: schedule_tx
prio_schedule_tx(m, info, at_time, bundle, qs) ==
    LET data == prio_dry_run_tx(m, info, at_time, bundle, qs)
    IN  [data |-> data,
         queue_size |-> IF data.ok /\ m.auto_update
                        THEN [p \in 1..3 |-> IF p <= bundle.priority + 1
                                             THEN qs[p] + bundle.size
                                             ELSE qs[p]]
                        ELSE qs]

\* generate_prio_volume_manager: try_init; new() holds [0.0; 3], try_init
\* writes the first prio_count levels
prio_try_init(m, info) ==
    [p \in 1..3 |-> IF p <= m.prio_count THEN original_volume(info) ELSE 0]

\* impl_struct_conditional_methods!(false): enqueue
enqueue(info, qs, bundle) ==
    IF qs[1] + bundle.size > original_volume(info)
    THEN [panic |-> TRUE, queue_size |-> qs]
    ELSE [panic |-> FALSE,
          queue_size |-> [qs EXCEPT ![1] = qs[1] + bundle.size]]

\* impl_struct_conditional_methods!(false): dequeue
dequeue(info, qs, bundle) ==
    IF qs[1] < bundle.size
    THEN [panic |-> TRUE, queue_size |-> qs]
    ELSE [panic |-> FALSE,
          queue_size |-> [qs EXCEPT ![1] = qs[1] - bundle.size]]

\* impl_manual_queue_methods_prio!(false): enqueue
prio_enqueue(info, qs, bundle) ==
    IF qs[bundle.priority + 1] + bundle.size > original_volume(info)
    THEN [panic |-> TRUE, queue_size |-> qs]
    ELSE [panic |-> FALSE,
          queue_size |-> [p \in 1..3 |-> IF p <= bundle.priority + 1
                                         THEN qs[p] + bundle.size
                                         ELSE qs[p]]]

\* impl_manual_queue_methods_prio!(false): dequeue
prio_dequeue(info, qs, bundle) ==
    IF qs[bundle.priority + 1] < bundle.size
    THEN [panic |-> TRUE, queue_size |-> qs]
    ELSE [panic |-> FALSE,
          queue_size |-> [p \in 1..3 |-> IF p <= bundle.priority + 1
                                         THEN qs[p] + bundle.size
                                         ELSE qs[p]]]

\* SegmentationManager::get_delay
get_delay(tx_end, delay_intervals) ==
    LET idx == {i \in 1..Len(delay_intervals) : ~(tx_end > delay_intervals[i].end)}
    IN  IF idx = {} THEN DateMax
        ELSE delay_intervals[CHOOSE i \in idx : \A j \in idx : i <= j].val

\* SegmentationManager::get_tx_end: the loop over the rate segments from
\* segment i on; s holds at_time, volume and tx_end
RECURSIVE get_tx_end_loop(_, _, _)
get_tx_end_loop(rate_intervals, i, s) ==
    IF i > Len(rate_intervals) THEN s
    ELSE IF rate_intervals[i].end < s.at_time
         THEN get_tx_end_loop(rate_intervals, i + 1, s)
    ELSE LET rate_seg == rate_intervals[i]
             tx_end == s.at_time + (s.volume \div rate_seg.val)
         IN  IF tx_end > rate_seg.end
             THEN get_tx_end_loop(rate_intervals, i + 1,
                      [at_time |-> rate_seg.end,
                       volume |-> s.volume - rate_seg.val * (tx_end - s.at_time),
                       tx_end |-> tx_end])
             ELSE [at_time |-> s.at_time, volume |-> 0, tx_end |-> tx_end]

\* SegmentationManager::get_tx_end
get_tx_end(rate_intervals, at_time, volume, deadline) ==
    LET s == get_tx_end_loop(rate_intervals, 1,
                 [at_time |-> at_time, volume |-> volume, tx_end |-> DateMax])
    IN  IF s.volume > 0 \/ s.tx_end > deadline THEN [ok |-> FALSE, tx_end |-> 0]
        ELSE [ok |-> TRUE, tx_end |-> s.tx_end]

\* the free intervals that the loops of dry_run and schedule do not skip and
\* in which the bundle fits
seg_fits(seg, at_time, bundle) ==
    {i \in 1..Len(seg.free_intervals) :
        /\ ~(seg.free_intervals[i].end < at_time)
        /\ get_tx_end(seg.rate_intervals, Max(seg.free_intervals[i].start, at_time),
                      bundle.size, seg.free_intervals[i].end).ok}

\* SegmentationManager::dry_run
seg_dry_run(seg, at_time, bundle) ==
    LET fits == seg_fits(seg, at_time, bundle)
    IN  IF fits = {} THEN NoTx
        ELSE LET free_seg == seg.free_intervals[CHOOSE i \in fits : \A j \in fits : i <= j]
                 tx_start == Max(free_seg.start, at_time)
                 tx_end == get_tx_end(seg.rate_intervals, tx_start, bundle.size,
                                      free_seg.end).tx_end
                 delay == get_delay(tx_end, seg.delay_intervals)
             IN  [ok |-> TRUE, tx_start |-> tx_start, tx_end |-> tx_end,
                  delay |-> delay, expiration |-> free_seg.end,
                  arrival |-> tx_end + delay]

\* SegmentationManager::schedule, called after a dry run that succeeded: index
\* is incremented for the intervals in which the bundle does not fit, and not
\* for those the loop skips with continue
seg_schedule(seg, at_time, bundle) ==
    LET fits == seg_fits(seg, at_time, bundle)
        first == CHOOSE i \in fits : \A j \in fits : i <= j
        free == seg.free_intervals
        index == 1 + Cardinality({j \in 1..(first - 1) : ~(free[j].end < at_time)})
        tx_start == Max(free[first].start, at_time)
        tx_end == get_tx_end(seg.rate_intervals, tx_start, bundle.size,
                             free[first].end).tx_end
        interval == free[index]
        expiration == interval.end
        delay == get_delay(tx_end, seg.delay_intervals)
    IN  [data |-> [ok |-> TRUE, tx_start |-> tx_start, tx_end |-> tx_end,
                   delay |-> delay, expiration |-> expiration,
                   arrival |-> tx_end + delay],
         free_intervals |->
            IF interval.start # tx_start
            THEN SubSeq(free, 1, index - 1)
                 \o << [start |-> interval.start, end |-> tx_start],
                       [start |-> tx_end, end |-> expiration] >>
                 \o SubSeq(free, index + 1, Len(free))
            ELSE [free EXCEPT ![index].start = tx_end]]

\* the loops of SegmentationManager::try_init over one list of segments
no_holes(intervals, info) ==
    /\ \A i \in 1..Len(intervals) :
          intervals[i].start = IF i = 1 THEN info.start ELSE intervals[i - 1].end
    /\ Len(intervals) > 0
    /\ intervals[Len(intervals)].end = info.end

\* SegmentationManager::try_init
seg_try_init(seg, info) ==
    IF no_holes(seg.rate_intervals, info) /\ no_holes(seg.delay_intervals, info)
    THEN [ok |-> TRUE,
          free_intervals |-> seg.free_intervals
                             \o << [start |-> info.start, end |-> info.end] >>]
    ELSE [ok |-> FALSE, free_intervals |-> seg.free_intervals]

\* the bench before Contact::try_new was called
NoCm ==
    [pc |-> "new", m |-> MkManager("EVL", "basic", FALSE, TRUE, 1),
     info |-> [start |-> 0, end |-> 0, rate |-> 1, delay |-> 0],
     queue_size |-> << 0, 0, 0 >>,
     seg |-> [free_intervals |-> << >>, rate_intervals |-> << >>,
              delay_intervals |-> << >>],
     queued |-> << >>, booked |-> << >>, ops |-> 0,
     op |-> [name |-> "none", at_time |-> 0, size |-> 0, priority |-> 0,
             pre_queue |-> << 0, 0, 0 >>, pre_free |-> << >>, data |-> NoTx]]

\* ----------------------------------------------------------------- distance
\* The Hop distance: hop count first, then arrival time, then expiration.
Hop_cmp(first, second) ==
    IF first.hop_count > second.hop_count THEN 1
    ELSE IF first.hop_count < second.hop_count THEN -1
    ELSE IF first.at_time > second.at_time THEN 1
    ELSE IF first.at_time < second.at_time THEN -1
    ELSE IF first.expiration < second.expiration THEN 1
    ELSE IF first.expiration > second.expiration THEN -1
    ELSE 0

\* SABR::cmp: -1 = Less, 0 = Equal, 1 = Greater
SABR_cmp(first, second) ==
    IF first.at_time > second.at_time THEN 1
    ELSE IF first.at_time < second.at_time THEN -1
    ELSE IF first.hop_count > second.hop_count THEN 1
    ELSE IF first.hop_count < second.hop_count THEN -1
    ELSE IF first.expiration < second.expiration THEN 1
    ELSE IF first.expiration > second.expiration THEN -1
    ELSE 0

\* --------------------------------------------------------------- route stage
NoDest == [n \in Nodes |-> 0]

\* RouteStage::new; via = contact id (0 = None), parent = stage id (0 = None)
RouteStage_new(at_time, to_node, via, parent) ==
    [to_node |-> to_node, at_time |-> at_time, is_disabled |-> FALSE,
     via |-> via, parent |-> parent, hop_count |-> 0, cumulative_delay |-> 0,
     expiration |-> DateMax, route_initialized |-> FALSE,
     next_for_destination |-> NoDest]

\* ---------------------------------------------------------------- multigraph
ContactSeq == [i \in 1..Len(CP) |-> i]
RxDescending == [i \in 1..NodeCount |-> NodeCount - i]

\* Receiver.contacts_to_receiver: the contacts of (tx, rx), sorted by start
contacts_to_receiver(tx, rx) ==
    SelectSeq(ContactSeq, LAMBDA c : CP[c].tx = tx /\ CP[c].rx = rx)

\* Sender.receivers: Multigraph::new drains the sorted plan from its end, so a
\* sender lists its receivers by decreasing id
receivers(tx) ==
    SelectSeq(RxDescending, LAMBDA r : contacts_to_receiver(tx, r) # << >>)

Pairs == Nodes \X Nodes

\* A scan that numbers the contacts after skipping the pruned ones.
lazy_prune_skip_then_enumerate(nx, contacts, current_time) ==
    LET alive == {i \in nx..(Len(contacts) - 1) : CP[contacts[i + 1]].end > current_time}
    IN  IF alive = {} THEN [found |-> FALSE, idx |-> 0, next |-> nx]
        ELSE LET idx == CHOOSE i \in alive : \A j \in alive : i <= j
             IN  [found |-> TRUE, idx |-> idx - nx, next |-> idx - nx]

\* Receiver::lazy_prune_and_get_first_idx; indexes are 0-based as in the source
lazy_prune_and_get_first_idx(nx, contacts, current_time) ==
    LET alive == {i \in nx..(Len(contacts) - 1) : CP[contacts[i + 1]].end > current_time}
    IN  IF alive = {} THEN [found |-> FALSE, idx |-> 0, next |-> nx]
        ELSE LET idx == CHOOSE i \in alive : \A j \in alive : i <= j
             IN  [found |-> TRUE, idx |-> idx, next |-> idx]

RECURSIVE exclusions_walk(_, _, _, _)
exclusions_walk(flags, exclusions, node_id, exclusion_idx) ==
    IF node_id >= NodeCount THEN flags
    ELSE IF exclusion_idx < Len(exclusions) /\ exclusions[exclusion_idx + 1] = node_id
         THEN exclusions_walk([flags EXCEPT ![node_id] = TRUE], exclusions,
                              node_id + 1, exclusion_idx + 1)
         ELSE exclusions_walk([flags EXCEPT ![node_id] = FALSE], exclusions,
                              node_id + 1, exclusion_idx)

\* Multigraph::prepare_for_exclusions_sorted
prepare_for_exclusions_sorted(flags, exclusions) ==
    exclusions_walk(flags, exclusions, 0, 0)

\* ---------------------------------------------------------------- try_make_hop
\* A scan that stops at the first contact that opens after the sender's time.
RECURSIVE hop_scan_until_future(_, _, _, _, _, _, _, _)
hop_scan_until_future(idx, final, index, sndr, bundle, contacts, q, supp) ==
    IF idx >= Len(contacts) THEN [final |-> final, index |-> index]
    ELSE LET c == contacts[idx + 1] IN
         IF supp[c]
         THEN hop_scan_until_future(idx + 1, final, index, sndr, bundle, contacts, q, supp)
         ELSE IF CP[c].start > sndr.at_time THEN [final |-> final, index |-> index]
         ELSE Bind(dry_run_tx(cfg.mgr, CP[c], sndr.at_time, bundle, q[c]), LAMBDA hop :
              IF hop.ok /\ hop.tx_end + hop.delay < final.arrival
              THEN hop_scan_until_future(idx + 1, hop, idx, sndr, bundle, contacts, q, supp)
              ELSE hop_scan_until_future(idx + 1, final, index, sndr, bundle, contacts,
                                         q, supp))

RECURSIVE hop_scan(_, _, _, _, _, _, _, _)
hop_scan(idx, final, index, sndr, bundle, contacts, q, supp) ==
    IF idx >= Len(contacts) THEN [final |-> final, index |-> index]
    ELSE LET c == contacts[idx + 1] IN
         IF supp[c]
         THEN hop_scan(idx + 1, final, index, sndr, bundle, contacts, q, supp)
         ELSE IF CP[c].start > final.arrival THEN [final |-> final, index |-> index]
         ELSE Bind(dry_run_tx(cfg.mgr, CP[c], sndr.at_time, bundle, q[c]), LAMBDA hop :
              IF hop.ok /\ hop.tx_end + hop.delay < final.arrival
              THEN hop_scan(idx + 1, hop, idx, sndr, bundle, contacts, q, supp)
              ELSE hop_scan(idx + 1, final, index, sndr, bundle, contacts, q, supp))

NoHop == [ok |-> FALSE, stage |-> RouteStage_new(0, 0, 0, 0)]

\* A hop whose expiration is that of its own contact, whatever the sender's.
try_make_hop_own_expiration(first_contact_index, sndr, sndr_id, bundle, contacts, q, supp) ==
    Bind(hop_scan(first_contact_index, NoTx, 0, sndr, bundle, contacts, q, supp), LAMBDA r :
    LET final_data == r.final
        selected == contacts[r.index + 1]
    IN  IF final_data.arrival < DateMax
        THEN [ok |-> TRUE,
              stage |-> [RouteStage_new(final_data.arrival, CP[selected].rx,
                                        selected, sndr_id)
                         EXCEPT !.hop_count = sndr.hop_count + 1,
                                !.cumulative_delay = sndr.cumulative_delay + final_data.delay,
                                !.expiration = final_data.expiration]]
        ELSE NoHop)

\* try_make_hop: the best contact of the receiver from first_contact_index on
try_make_hop(first_contact_index, sndr, sndr_id, bundle, contacts, q, supp) ==
    Bind(hop_scan(first_contact_index, NoTx, 0, sndr, bundle, contacts, q, supp), LAMBDA r :
    LET final_data == r.final
        selected == contacts[r.index + 1]
    IN  IF final_data.arrival < DateMax
        THEN [ok |-> TRUE,
              stage |-> [RouteStage_new(final_data.arrival, CP[selected].rx,
                                        selected, sndr_id)
                         EXCEPT !.hop_count = sndr.hop_count + 1,
                                !.cumulative_delay = sndr.cumulative_delay + final_data.delay,
                                !.expiration = Min(final_data.expiration - sndr.cumulative_delay,
                                                   sndr.expiration)]]
        ELSE NoHop)

\* ------------------------------------------------------------ priority queue
\* BinaryHeap<Reverse<DistanceWrapper>>: a max-heap on the reversed order.
\* heap_le(S, a, b) is Reverse(a) <= Reverse(b).
heap_le(S, a, b) == SABR_cmp(S[b], S[a]) <= 0

RECURSIVE sift_up(_, _, _, _, _)
sift_up(S, data, start, pos, elem) ==
    IF pos > start
    THEN LET parent == (pos - 1) \div 2 IN
         IF heap_le(S, elem, data[parent + 1])
         THEN [data EXCEPT ![pos + 1] = elem]
         ELSE sift_up(S, [data EXCEPT ![pos + 1] = data[parent + 1]], start, parent, elem)
    ELSE [data EXCEPT ![pos + 1] = elem]

heap_push(S, data, id) == sift_up(S, Append(data, id), 0, Len(data), id)

RECURSIVE sift_down_to_bottom(_, _, _, _, _)
sift_down_to_bottom(S, data, pos, elem, end) ==
    LET child == 2 * pos + 1 IN
    IF end >= 2 /\ child <= end - 2
    THEN LET c2 == IF heap_le(S, data[child + 1], data[child + 2])
                   THEN child + 1 ELSE child
         IN  sift_down_to_bottom(S, [data EXCEPT ![pos + 1] = data[c2 + 1]], c2, elem, end)
    ELSE IF child = end - 1
         THEN sift_up(S, [data EXCEPT ![pos + 1] = data[child + 1]], 0, child, elem)
         ELSE sift_up(S, data, 0, pos, elem)

heap_pop(S, data) ==
    LET item == data[Len(data)]
        rest == SubSeq(data, 1, Len(data) - 1)
    IN  IF rest = << >> THEN [item |-> item, heap |-> rest]
        ELSE [item |-> rest[1],
              heap |-> sift_down_to_bottom(S, rest, 0, item, Len(rest))]

\* ------------------------------------------------------------- pathfinding
\* PathFindingOutput; stages holds the RouteStage objects the output owns,
\* source is stage 1, by_destination maps a node to a stage id (0 = None)
PathFindingOutput_new(bundle, source_route, excluded_nodes_sorted) ==
    [bundle |-> bundle, source |-> 1, excluded_nodes_sorted |-> excluded_nodes_sorted,
     by_destination |-> NoDest, stages |-> << source_route >>]

\* The working state of one get_next call
SearchInit(current_time, source, nx, wa) ==
    [stages |-> << RouteStage_new(current_time, source, 0, 0) >>,
     by_destination |-> [NoDest EXCEPT ![source] = 1],
     pq |-> << 1 >>,
     next |-> nx,
     work_area |-> wa,
     altered_contacts |-> << >>,
     visited_as_tx |-> {source},
     visited_as_rx |-> {source},
     first_pop |-> NoDest]

\* An admission that keeps the first label a node was given.
ng_admit_first_wins(G, prop, rx) ==
    IF G.by_destination[rx] # 0 THEN G
    ELSE [G EXCEPT !.stages = Append(G.stages, prop),
                   !.by_destination[rx] = Len(G.stages) + 1,
                   !.pq = heap_push(Append(G.stages, prop), G.pq, Len(G.stages) + 1)]

\* node_graph.rs: the admission of a proposition for receiver rx
ng_admit(G, prop, rx) ==
    LET known == G.by_destination[rx]
        id == Len(G.stages) + 1
    IN  Bind(known # 0 /\ SABR_cmp(prop, G.stages[known]) = -1, LAMBDA less :
        Bind(Append(IF less THEN [G.stages EXCEPT ![known].is_disabled = TRUE]
                    ELSE G.stages, prop), LAMBDA st2 :
        IF known = 0 \/ less
        THEN [G EXCEPT !.stages = st2,
                       !.by_destination[rx] = id,
                       !.pq = heap_push(st2, G.pq, id)]
        ELSE G))

\* An admission that leaves by_destination on the label it has just disabled.
cg_admit_keeps_known(G, prop, rx) ==
    LET c == prop.via
        wa == G.work_area[c]
        id == Len(G.stages) + 1
        known == G.by_destination[rx]
    IN  Bind(wa # 0 /\ SABR_cmp(prop, G.stages[wa]) = -1, LAMBDA less :
        Bind(Append(IF less THEN [G.stages EXCEPT ![wa].is_disabled = TRUE]
                    ELSE G.stages, prop), LAMBDA st2 :
        IF wa = 0 \/ less
        THEN [G EXCEPT !.stages = st2,
                       !.altered_contacts = IF wa = 0 THEN Append(@, c) ELSE @,
                       !.pq = heap_push(st2, G.pq, id),
                       !.work_area[c] = id,
                       !.by_destination[rx] = IF known = 0 THEN id ELSE known,
                       !.visited_as_rx = @ \cup {rx}]
        ELSE G))

\* contact_graph.rs: the admission of a proposition against the work area of
\* the contact it uses
cg_admit(G, prop, rx) ==
    LET c == prop.via
        wa == G.work_area[c]
        id == Len(G.stages) + 1
        known == G.by_destination[rx]
    IN  Bind(wa # 0 /\ SABR_cmp(prop, G.stages[wa]) = -1, LAMBDA less :
        Bind(Append(IF less THEN [G.stages EXCEPT ![wa].is_disabled = TRUE]
                    ELSE G.stages, prop), LAMBDA st2 :
        IF wa = 0 \/ less
        THEN [G EXCEPT !.stages = st2,
                       !.altered_contacts = IF wa = 0 THEN Append(@, c) ELSE @,
                       !.pq = heap_push(st2, G.pq, id),
                       !.work_area[c] = id,
                       !.by_destination[rx] =
                            IF known = 0 \/ SABR_cmp(prop, st2[known]) = -1
                            THEN id ELSE known,
                       !.visited_as_rx = @ \cup {rx}]
        ELSE G))

\* the loop over the receivers of the popped label's node
RECURSIVE relax(_, _, _, _, _)
relax(G, ctx, from_id, rxs, i) ==
    IF i > Len(rxs) THEN G
    ELSE LET rx == rxs[i]
             tx == G.stages[from_id].to_node
         IN  IF ctx.with_exclusions /\ ctx.excl[rx]
             THEN relax(G, ctx, from_id, rxs, i + 1)
             ELSE Bind(contacts_to_receiver(tx, rx), LAMBDA contacts :
                  Bind(lazy_prune_and_get_first_idx(G.next[<< tx, rx >>], contacts, ctx.t),
                       LAMBDA lp :
                  Bind([G EXCEPT !.next[<< tx, rx >>] = lp.next], LAMBDA G1 :
                  Bind(IF lp.found
                       THEN try_make_hop(lp.idx, G.stages[from_id], from_id,
                                         ctx.bundle, contacts, ctx.q, ctx.supp)
                       ELSE NoHop, LAMBDA prop :
                  relax(IF ~prop.ok THEN G1
                        ELSE IF ctx.parenting = "node" THEN ng_admit(G1, prop.stage, rx)
                        ELSE cg_admit(G1, prop.stage, rx),
                        ctx, from_id, rxs, i + 1)))))

\* the main loop of get_next (node_graph.rs 110-162, contact_graph.rs 133-235)
RECURSIVE search(_, _)
search(G, ctx) ==
    IF G.pq = << >> THEN G
    ELSE Bind(heap_pop(G.stages, G.pq), LAMBDA p :
         LET from_id == p.item
             G0 == [G EXCEPT !.pq = p.heap]
             tx_node_id == G.stages[from_id].to_node
         IN  IF G.stages[from_id].is_disabled THEN search(G0, ctx)
             ELSE IF ~ctx.is_tree_output /\ ctx.bundle.destinations[1] = tx_node_id THEN G0
             ELSE Bind(relax([G0 EXCEPT !.visited_as_tx = @ \cup {tx_node_id},
                                        !.first_pop[tx_node_id] =
                                             IF @ = 0 THEN from_id ELSE @],
                             ctx, from_id, receivers(tx_node_id), 1), LAMBDA G2 :
                  IF ctx.is_tree_output /\ ctx.parenting = "contact"
                     /\ Cardinality(G2.visited_as_tx) = Cardinality(G2.visited_as_rx)
                  THEN G2
                  ELSE search(G2, ctx)))

RECURSIVE clear_work_areas(_, _, _)
clear_work_areas(wa, altered, i) ==
    IF i > Len(altered) THEN wa
    ELSE clear_work_areas([wa EXCEPT ![altered[i]] = 0], altered, i + 1)

\* Pathfinding::get_next of NodeGraph* / ContactGraph*.  W is the multigraph
\* state the call reads and writes.
pf_get_next(parenting, is_tree_output, with_exclusions, current_time, source, bundle, excluded_nodes_sorted, W) ==
    Bind(IF with_exclusions
         THEN prepare_for_exclusions_sorted(W.excluded, excluded_nodes_sorted)
         ELSE W.excluded, LAMBDA excl :
    Bind(search(SearchInit(current_time, source, W.next, W.work_area),
                [parenting |-> parenting, is_tree_output |-> is_tree_output,
                 with_exclusions |-> with_exclusions, t |-> current_time,
                 bundle |-> bundle, q |-> W.queue_size, supp |-> W.suppressed,
                 excl |-> excl]), LAMBDA G :
        [tree |-> [PathFindingOutput_new(bundle, G.stages[1], excluded_nodes_sorted)
                   EXCEPT !.by_destination = G.by_destination, !.stages = G.stages],
         first_pop |-> G.first_pop,
         W |-> [W EXCEPT !.excluded = excl, !.next = G.next,
                         !.work_area = IF parenting = "contact"
                                       THEN clear_work_areas(G.work_area, G.altered_contacts, 1)
                                       ELSE G.work_area]]))

\* ------------------------------------------------- dry run and schedule
RECURSIVE init_walk(_, _, _)
init_walk(stages, destination, current) ==
    LET parent == stages[current].parent IN
    IF stages[current].via # 0
    THEN init_walk([stages EXCEPT ![parent].next_for_destination[destination] = current],
                   destination, parent)
    ELSE stages

\* RouteStage::init_route
init_route(stages, route) ==
    IF stages[route].route_initialized THEN stages
    ELSE [init_walk(stages, stages[route].to_node, route)
          EXCEPT ![route].route_initialized = TRUE]

\* PathFindingOutput::init_for_destination
init_for_destination(tree, destination) ==
    IF tree.by_destination[destination] # 0
    THEN [tree EXCEPT !.stages = init_route(@, tree.by_destination[destination])]
    ELSE tree

\* RouteStage::dry_run, called with the stage's at_time set to the time at the
\* tx node.  W.queue_size and W.excluded are read, nothing is booked.
stage_dry_run(stage, bundle, with_exclusions, W) ==
    IF stage.via = 0 THEN [ok |-> FALSE, stage |-> stage]
    ELSE Bind(CP[stage.via], LAMBDA info :
         Bind(dry_run_tx(cfg.mgr, info, stage.at_time, bundle, W.queue_size[stage.via]),
              LAMBDA res :
         LET arrival_time == res.tx_end + res.delay
         IN  IF with_exclusions /\ W.excluded[info.rx] THEN [ok |-> FALSE, stage |-> stage]
             ELSE IF ~res.ok THEN [ok |-> FALSE, stage |-> stage]
             ELSE IF arrival_time > bundle.expiration THEN [ok |-> FALSE, stage |-> stage]
             ELSE [ok |-> TRUE, stage |-> [stage EXCEPT !.at_time = arrival_time]]))

NoLog == << >>

\* RouteStage::schedule: the contact manager books the transmission before the
\* arrival is compared with the bundle's expiration
stage_schedule(stage, bundle, q) ==
    IF stage.via = 0 THEN [ok |-> FALSE, stage |-> stage, queue_size |-> q, log |-> NoLog]
    ELSE Bind(schedule_tx(cfg.mgr, CP[stage.via], stage.at_time, bundle, q[stage.via]),
              LAMBDA r :
         LET res == r.data
             arrival_time == res.tx_end + res.delay
             q1 == [q EXCEPT ![stage.via] = r.queue_size]
             entry == << [contact |-> stage.via, tx_start |-> res.tx_start,
                          tx_end |-> res.tx_end, size |-> bundle.size] >>
         IN  IF ~res.ok THEN [ok |-> FALSE, stage |-> stage, queue_size |-> q, log |-> NoLog]
             ELSE IF arrival_time > bundle.expiration
                  THEN [ok |-> FALSE, stage |-> stage, queue_size |-> q1, log |-> entry]
                  ELSE [ok |-> TRUE, stage |-> [stage EXCEPT !.at_time = arrival_time],
                        queue_size |-> q1, log |-> entry])

RECURSIVE dry_run_walk(_, _, _, _, _, _, _, _)
dry_run_walk(stages, curr, at_time, bundle, dest, with_exclusions, W, at_times) ==
    Bind(stage_dry_run([stages[curr] EXCEPT !.at_time = at_time], bundle,
                       with_exclusions, W), LAMBDA r :
    LET st == [stages EXCEPT ![curr] = r.stage]
        seen == Append(at_times, r.stage.at_time)
        nxt == r.stage.next_for_destination[dest]
    IN  IF ~r.ok THEN [ok |-> FALSE, route |-> 0, stages |-> st, at_times |-> seen]
        ELSE IF r.stage.to_node = dest
             THEN [ok |-> TRUE, route |-> curr, stages |-> st, at_times |-> seen]
        ELSE IF nxt # 0
             THEN dry_run_walk(st, nxt, r.stage.at_time, bundle, dest, with_exclusions,
                               W, seen)
        ELSE [ok |-> FALSE, route |-> 0, stages |-> st, at_times |-> seen])

\* create_dry_run_unicast_path_variant: the generated function hands `false`
\* to RouteStage::dry_run whatever $apply_exclusions is
dry_run_unicast_variant(apply_exclusions, try_init, bundle, at_time, stages, source_route, dest_route, W) ==
    Bind(IF try_init THEN init_route(stages, dest_route) ELSE stages, LAMBDA st :
    LET dest == bundle.destinations[1]
        first == st[source_route].next_for_destination[dest]
    IN  IF first = 0 THEN [ok |-> FALSE, route |-> 0, stages |-> st, at_times |-> << >>]
        ELSE dry_run_walk(st, first, at_time, bundle, dest, FALSE, W, << >>))

dry_run_unicast_path(bundle, at_time, stages, source_route, dest_route, W) ==
    dry_run_unicast_variant(FALSE, TRUE, bundle, at_time, stages, source_route,
                            dest_route, W)

dry_run_unicast_path_with_exclusions(bundle, at_time, stages, source_route, dest_route, W) ==
    dry_run_unicast_variant(TRUE, FALSE, bundle, at_time, stages, source_route,
                            dest_route, W)

\* dry_run_unicast_tree
dry_run_unicast_tree(bundle, at_time, tree, W) ==
    LET dest == bundle.destinations[1] IN
    IF tree.by_destination[dest] = 0
    THEN [ok |-> FALSE, route |-> 0, stages |-> tree.stages, at_times |-> << >>]
    ELSE dry_run_unicast_path(bundle, at_time, tree.stages, tree.source,
                              tree.by_destination[dest], W)

RECURSIVE update_walk(_, _, _, _, _, _, _, _)
update_walk(stages, curr, at_time, bundle, dest, q, log, at_times) ==
    Bind(stage_schedule([stages[curr] EXCEPT !.at_time = at_time], bundle, q), LAMBDA r :
    LET st == [stages EXCEPT ![curr] = r.stage]
        seen == Append(at_times, r.stage.at_time)
        nxt == r.stage.next_for_destination[dest]
        out == [panic |-> TRUE, stages |-> st, queue_size |-> r.queue_size,
                log |-> log \o r.log, at_times |-> seen]
    IN  IF ~r.ok THEN out
        ELSE IF r.stage.to_node = dest THEN [out EXCEPT !.panic = FALSE]
        ELSE IF nxt # 0
             THEN update_walk(st, nxt, r.stage.at_time, bundle, dest, r.queue_size,
                              log \o r.log, seen)
        ELSE out)

\* update_unicast; panic = "Faulty dry run, didn't allow a clean update!"
update_unicast(bundle, dest, at_time, stages, source_route, q) ==
    LET first == stages[source_route].next_for_destination[dest] IN
    IF first = 0
    THEN [panic |-> TRUE, stages |-> stages, queue_size |-> q, log |-> << >>,
          at_times |-> << >>]
    ELSE update_walk(stages, first, at_time, bundle, dest, q, << >>, << >>)

\* build_unicast_output: first_hops as a set of (contact, destinations)
build_unicast_output(stages, source_route, destination) ==
    LET first == stages[source_route].next_for_destination[destination] IN
    IF first # 0 /\ stages[first].via # 0
    THEN {[contact |-> stages[first].via, dests |-> {destination}]}
    ELSE {}

\* schedule_unicast
schedule_unicast(bundle, curr_time, tree, init_tree, q) ==
    LET dest == bundle.destinations[1] IN
    Bind(IF init_tree THEN init_for_destination(tree, dest) ELSE tree, LAMBDA t1 :
    Bind(update_unicast(bundle, dest, curr_time, t1.stages, t1.source, q), LAMBDA u :
        [panic |-> u.panic, tree |-> [t1 EXCEPT !.stages = u.stages],
         queue_size |-> u.queue_size, log |-> u.log, at_times |-> u.at_times,
         first_hops |-> build_unicast_output(u.stages, t1.source, dest)]))

\* schedule_unicast_path
schedule_unicast_path(bundle, curr_time, stages, source_route, q) ==
    LET dest == bundle.destinations[1] IN
    Bind(update_unicast(bundle, dest, curr_time, stages, source_route, q), LAMBDA u :
        [panic |-> u.panic, stages |-> u.stages,
         queue_size |-> u.queue_size, log |-> u.log, at_times |-> u.at_times,
         first_hops |-> build_unicast_output(u.stages, source_route, dest)])

\* ------------------------------------------------------------- multicast
RECURSIVE SortedSeq(_)
SortedSeq(S) ==
    IF S = {} THEN << >>
    ELSE LET m == CHOOSE x \in S : \A y \in S : x <= y
         IN  << m >> \o SortedSeq(S \ {m})

SeqToSet(s) == {s[i] : i \in 1..Len(s)}

\* next_routes of rec_dry_run_multicast / rec_update_multicast: the next stages
\* of the destinations that are not this stage's node, each with the
\* destinations it serves.  The subtrees are visited by increasing stage id.
next_routes(stage, dests, at_time) ==
    Bind(SelectSeq(dests, LAMBDA d : stage.to_node # d
                                     /\ stage.next_for_destination[d] # 0), LAMBDA onward :
    Bind(SortedSeq({stage.next_for_destination[d] : d \in SeqToSet(onward)}),
         LAMBDA children :
        [i \in 1..Len(children) |->
            [route |-> children[i], at_time |-> at_time, is_source |-> FALSE,
             dests |-> SelectSeq(onward,
                           LAMBDA d : stage.next_for_destination[d] = children[i])]]))

\* rec_dry_run_multicast; the recursion is unfolded on a stack of pending calls
RECURSIVE rec_dry_run_multicast(_, _, _, _, _)
rec_dry_run_multicast(stack, stages, reached, bundle, W) ==
    IF stack = << >> THEN [stages |-> stages, reached |-> reached]
    ELSE LET f == Head(stack) IN
         Bind(IF f.is_source THEN [ok |-> TRUE, stage |-> stages[f.route]]
              ELSE stage_dry_run([stages[f.route] EXCEPT !.at_time = f.at_time],
                                 bundle, FALSE, W), LAMBDA r :
         LET st == [stages EXCEPT ![f.route] = r.stage]
             at_time == IF f.is_source THEN f.at_time ELSE r.stage.at_time
             here == SelectSeq(f.dests, LAMBDA d : r.stage.to_node = d)
         IN  IF ~r.ok THEN rec_dry_run_multicast(Tail(stack), st, reached, bundle, W)
             ELSE rec_dry_run_multicast(next_routes(r.stage, f.dests, at_time) \o Tail(stack),
                                        st, reached \o here, bundle, W))

RECURSIVE init_destinations(_, _, _)
init_destinations(tree, dests, i) ==
    IF i > Len(dests) THEN tree
    ELSE init_destinations(init_for_destination(tree, dests[i]), dests, i + 1)

\* dry_run_multicast: reachable = the destinations present in the tree,
\* reached = the destinations the dry run arrives at
dry_run_multicast(bundle, at_time, tree, W) ==
    Bind(SelectSeq(bundle.destinations, LAMBDA d : tree.by_destination[d] # 0),
         LAMBDA reachable :
    Bind(init_destinations(tree, reachable, 1), LAMBDA t1 :
    Bind(rec_dry_run_multicast(<< [route |-> t1.source, at_time |-> at_time,
                                   is_source |-> TRUE, dests |-> reachable] >>,
                               t1.stages, << >>, bundle, W), LAMBDA r :
        [tree |-> [t1 EXCEPT !.stages = r.stages], reachable |-> reachable,
         reached |-> r.reached])))

\* rec_update_multicast: a stage whose schedule fails ends its branch silently
RECURSIVE rec_update_multicast(_, _, _, _, _)
rec_update_multicast(stack, stages, q, log, bundle) ==
    IF stack = << >> THEN [stages |-> stages, queue_size |-> q, log |-> log]
    ELSE LET f == Head(stack) IN
         Bind(IF f.is_source
              THEN [ok |-> TRUE, stage |-> stages[f.route], queue_size |-> q,
                    log |-> NoLog]
              ELSE stage_schedule([stages[f.route] EXCEPT !.at_time = f.at_time],
                                  bundle, q), LAMBDA r :
         LET st == [stages EXCEPT ![f.route] = r.stage]
             at_time == IF f.is_source THEN f.at_time ELSE r.stage.at_time
         IN  IF ~r.ok
             THEN rec_update_multicast(Tail(stack), st, r.queue_size, log \o r.log, bundle)
             ELSE rec_update_multicast(next_routes(r.stage, f.dests, at_time) \o Tail(stack),
                                       st, r.queue_size, log \o r.log, bundle))

\* An output in which a first hop keeps the last destination found for it.
build_multicast_output_overwrite(stages, source_route, reached_nodes) ==
    LET listed == {d \in Nodes : stages[source_route].next_for_destination[d] # 0
                                 /\ d \in SeqToSet(reached_nodes)}
        hops == {stages[stages[source_route].next_for_destination[d]].via : d \in listed}
        Of(c) == {d \in listed :
                     stages[stages[source_route].next_for_destination[d]].via = c}
    IN  {[contact |-> c, dests |-> {CHOOSE d \in Of(c) : \A e \in Of(c) : e <= d}]
         : c \in hops}

\* build_multicast_output
build_multicast_output(stages, source_route, reached_nodes) ==
    LET listed == {d \in Nodes : stages[source_route].next_for_destination[d] # 0
                                 /\ d \in SeqToSet(reached_nodes)}
        hops == {stages[stages[source_route].next_for_destination[d]].via : d \in listed}
    IN  {[contact |-> c,
          dests |-> {d \in listed :
                        stages[stages[source_route].next_for_destination[d]].via = c}]
         : c \in hops}

\* schedule_multicast: with dry_run_to_fill_targets the dry run appends the
\* destinations present in the tree to targets; what it returns is dropped
schedule_multicast(bundle, curr_time, tree, targets, dry_run_to_fill_targets, W) ==
    Bind(IF dry_run_to_fill_targets THEN dry_run_multicast(bundle, curr_time, tree, W)
         ELSE [tree |-> tree, reachable |-> << >>, reached |-> << >>], LAMBDA d :
    LET t1 == d.tree
        tg == targets \o d.reachable
    IN  Bind(rec_update_multicast(<< [route |-> t1.source, at_time |-> curr_time,
                                      is_source |-> TRUE, dests |-> tg] >>,
                                  t1.stages, W.queue_size, << >>, bundle), LAMBDA u :
        [tree |-> [t1 EXCEPT !.stages = u.stages], queue_size |-> u.queue_size,
         log |-> u.log, targets |-> tg,
         first_hops |-> build_multicast_output(u.stages, t1.source, tg)]))

\* ------------------------------------------------------------ route storage
\* TreeCache::new(check_size, check_priority, max_entries)
check_size == TRUE
check_priority == TRUE
MaxEntries == 1

\* Bundle::shadows
shadows(self, other, check_by_size, check_by_priority) ==
    \/ check_by_size /\ self.size > other.size
    \/ check_by_priority /\ self.priority > other.priority

\* TreeCache::select; the dry runs write the at_time of the stages they walk,
\* whether or not the tree is selected
RECURSIVE cache_select(_, _, _, _, _, _)
cache_select(trs, i, bundle, curr_time, excluded_nodes_sorted, W) ==
    IF i > Len(trs) THEN [hit |-> 0, trees |-> trs, reached |-> << >>]
    ELSE IF shadows(trs[i].bundle, bundle, check_size, check_priority)
         THEN cache_select(trs, i + 1, bundle, curr_time, excluded_nodes_sorted, W)
    ELSE IF trs[i].excluded_nodes_sorted # excluded_nodes_sorted
         THEN cache_select(trs, i + 1, bundle, curr_time, excluded_nodes_sorted, W)
    ELSE IF Len(bundle.destinations) > 1
         THEN Bind(dry_run_multicast(bundle, curr_time, trs[i], W), LAMBDA d :
              [hit |-> i, trees |-> [trs EXCEPT ![i] = d.tree], reached |-> d.reached])
    ELSE Bind(dry_run_unicast_tree(bundle, curr_time, trs[i], W), LAMBDA r :
         LET trs1 == [trs EXCEPT ![i].stages = r.stages]
         IN  IF r.ok THEN [hit |-> i, trees |-> trs1, reached |-> << >>]
             ELSE cache_select(trs1, i + 1, bundle, curr_time, excluded_nodes_sorted, W))

\* A cache that appends every stored tree and never evicts.
cache_store_unbounded(trs, new_tree) ==
    Append(trs, new_tree)

\* TreeCache::store
cache_store(trs, new_tree) ==
    LET same == {i \in 1..Len(trs) :
                    trs[i].excluded_nodes_sorted = new_tree.excluded_nodes_sorted}
        put == IF same # {}
               THEN [trs EXCEPT ![CHOOSE i \in same : \A j \in same : i <= j] = new_tree]
               ELSE Append(trs, new_tree)
    IN  IF Len(put) > MaxEntries THEN Tail(put) ELSE put

\* Route::from_tree
Route_from_tree(tree, dest) ==
    [stages |-> tree.stages, source_stage |-> tree.source,
     destination_stage |-> tree.by_destination[dest]]

\* A table that keeps its routes and never proposes one.
table_select_nothing(routes, i, kept, best, bundle, curr_time, W) ==
    [best |-> 0, routes |-> routes]

\* A select that proposes the first route that passes the dry run.
RECURSIVE table_select_first(_, _, _, _, _, _, _)
table_select_first(routes, i, kept, best, bundle, curr_time, W) ==
    IF i > Len(routes) THEN [best |-> best, routes |-> kept]
    ELSE LET route == routes[i] IN
         IF curr_time > route.stages[route.destination_stage].expiration
         THEN table_select_first(routes, i + 1, kept, best, bundle, curr_time, W)
         ELSE Bind(dry_run_unicast_path_with_exclusions(bundle, curr_time,
                        route.stages, route.source_stage, route.destination_stage, W),
                   LAMBDA r :
              LET kept1 == Append(kept, [route EXCEPT !.stages = r.stages])
              IN  table_select_first(routes, i + 1, kept1,
                                     IF r.ok /\ best = 0 THEN Len(kept1) ELSE best,
                                     bundle, curr_time, W))

\* A select that also drops the routes that fail the dry run of this bundle.
RECURSIVE table_select_drops_failed(_, _, _, _, _, _, _)
table_select_drops_failed(routes, i, kept, best, bundle, curr_time, W) ==
    IF i > Len(routes) THEN [best |-> best, routes |-> kept]
    ELSE LET route == routes[i] IN
         IF curr_time > route.stages[route.destination_stage].expiration
         THEN table_select_drops_failed(routes, i + 1, kept, best, bundle, curr_time, W)
         ELSE Bind(dry_run_unicast_path_with_exclusions(bundle, curr_time,
                        route.stages, route.source_stage, route.destination_stage, W),
                   LAMBDA r :
              LET kept1 == IF r.ok THEN Append(kept, [route EXCEPT !.stages = r.stages])
                           ELSE kept
                  better == \/ best = 0
                            \/ SABR_cmp(r.stages[r.route],
                                   kept[best].stages[kept[best].destination_stage]) = -1
              IN  table_select_drops_failed(routes, i + 1, kept1,
                               IF r.ok /\ better THEN Len(kept1) ELSE best,
                               bundle, curr_time, W))

\* RoutingTable::select, the retain closure applied to routes[i..]
RECURSIVE table_select(_, _, _, _, _, _, _)
table_select(routes, i, kept, best, bundle, curr_time, W) ==
    IF i > Len(routes) THEN [best |-> best, routes |-> kept]
    ELSE LET route == routes[i] IN
         IF curr_time > route.stages[route.destination_stage].expiration
         THEN table_select(routes, i + 1, kept, best, bundle, curr_time, W)
         ELSE Bind(dry_run_unicast_path_with_exclusions(bundle, curr_time,
                        route.stages, route.source_stage, route.destination_stage, W),
                   LAMBDA r :
              LET kept1 == Append(kept, [route EXCEPT !.stages = r.stages])
                  better == \/ best = 0
                            \/ SABR_cmp(r.stages[r.route],
                                   kept[best].stages[kept[best].destination_stage]) = -1
              IN  table_select(routes, i + 1, kept1,
                               IF r.ok /\ better THEN Len(kept1) ELSE best,
                               bundle, curr_time, W))

\* RoutingTable::store
table_store(tbl, bundle, route) ==
    [tbl EXCEPT ![bundle.destinations[1]] = Append(@, route)]

\* Guard (with_priorities = false): known_limits[dest] = -1 stands for no entry
NoLimit == [n \in Nodes |-> -1]

must_abort(limits, bundle) ==
    LET unreachable == {i \in 1..Len(bundle.destinations) :
                           /\ limits[bundle.destinations[i]] # -1
                           /\ bundle.size < limits[bundle.destinations[i]]}
    IN  Cardinality(unreachable) = Len(bundle.destinations)

add_limit(limits, bundle, dest) ==
    IF limits[dest] # -1 /\ limits[dest] <= bundle.size THEN limits
    ELSE [limits EXCEPT ![dest] = bundle.size]

\* ------------------------------------------------- limiting-contact wrappers
\* first_ending.rs
ends_earlier_than(a, b) == CP[a].end < CP[b].end

\* A choice of the contact to suppress that takes the contact into the
\* destination, whenever it ends.
suppress_last_hop(stages, route, to_suppress) == stages[route].via

\* get_next_to_suppress: walks from the destination stage to the source
RECURSIVE get_next_to_suppress(_, _, _)
get_next_to_suppress(stages, route, to_suppress) ==
    IF stages[route].via = 0 THEN to_suppress
    ELSE LET via == stages[route].via
             pick == IF to_suppress = 0 THEN via
                     ELSE IF ends_earlier_than(via, to_suppress) THEN via
                     ELSE to_suppress
         IN  get_next_to_suppress(stages, stages[route].parent, pick)

\* limiting_contact/mod.rs get_next: S = [suppression_map, next_to_suppress]
limiting_get_next(parenting, current_time, source, bundle, excluded_nodes_sorted, W, S) ==
    LET dest == bundle.destinations[1] IN
    Bind(SelectSeq(S.suppression_map[dest], LAMBDA c : ~(CP[c].end < current_time)),
         LAMBDA kept :
    Bind(pf_get_next(parenting, FALSE, FALSE, current_time, source, bundle,
                     excluded_nodes_sorted,
                     [W EXCEPT !.suppressed = [c \in ContactIds |->
                                   W.suppressed[c] \/ c \in SeqToSet(kept)]]), LAMBDA r :
    Bind(IF r.tree.by_destination[dest] # 0
         THEN get_next_to_suppress(r.tree.stages, r.tree.by_destination[dest], 0)
         ELSE 0, LAMBDA contact :
    Bind(IF contact # 0 THEN Append(kept, contact) ELSE kept, LAMBDA list :
        [tree |-> r.tree,
         W |-> [r.W EXCEPT !.suppressed = [c \in ContactIds |->
                     IF c \in SeqToSet(list) THEN FALSE ELSE r.W.suppressed[c]]],
         S |-> [S EXCEPT !.suppression_map[dest] = list]]))))

\* pathfinding/mod.rs create_new_alternative_path_variant get_next
legacy_get_next(parenting, current_time, source, bundle, excluded_nodes_sorted, W, S) ==
    LET dest == bundle.destinations[1]
        supp1 == IF S.next_to_suppress # 0
                 THEN [W.suppressed EXCEPT ![S.next_to_suppress] = TRUE]
                 ELSE W.suppressed
    IN  Bind(pf_get_next(parenting, FALSE, FALSE, current_time, source, bundle,
                         excluded_nodes_sorted, [W EXCEPT !.suppressed = supp1]), LAMBDA r :
        LET route == r.tree.by_destination[dest]
        IN  [tree |-> r.tree, W |-> r.W,
             S |-> IF route # 0
                   THEN [S EXCEPT !.next_to_suppress =
                                       get_next_to_suppress(r.tree.stages, route, 0)]
                   ELSE S])

\* ------------------------------------------------------------------ routers
\* The stages a RoutingOutput leads to for one destination: the walk along
\* next_for_destination[dest] from the source stage
RECURSIVE chain_walk(_, _, _, _)
chain_walk(stages, curr, dest, acc) ==
    IF curr = 0 THEN acc
    ELSE IF stages[curr].to_node = dest THEN Append(acc, stages[curr])
    ELSE chain_walk(stages, stages[curr].next_for_destination[dest], dest,
                    Append(acc, stages[curr]))

Chain(stages, source_route, dest) ==
    chain_walk(stages, stages[source_route].next_for_destination[dest], dest, << >>)

AtTimes(chain) == [i \in 1..Len(chain) |-> chain[i].at_time]

Listed(first_hops) == UNION {h.dests : h \in first_hops}

NoChains == [n \in Nodes |-> << >>]
NoLabels == [n \in Nodes |-> [seen |-> FALSE, at_time |-> 0, hop_count |-> 0,
                              expiration |-> 0]]

\* what a route call hands back, with the bookkeeping the properties read
Outcome(result, first_hops, stages, source_route, log, dry_ran, dry_at) ==
    [result |-> result, first_hops |-> first_hops, log |-> log,
     dry_ran |-> dry_ran, dry_at |-> dry_at,
     chains |-> [n \in Nodes |-> IF n \in Listed(first_hops)
                                 THEN Chain(stages, source_route, n) ELSE << >>]]

NoOutcome(result) ==
    [result |-> result, first_hops |-> {}, log |-> << >>, dry_ran |-> FALSE,
     dry_at |-> << >>, chains |-> NoChains]

Labels(tree, first_pop) ==
    [n \in Nodes |->
        IF first_pop[n] = 0 THEN NoLabels[n]
        ELSE [seen |-> TRUE, at_time |-> tree.stages[first_pop[n]].at_time,
              hop_count |-> tree.stages[first_pop[n]].hop_count,
              expiration |-> tree.stages[first_pop[n]].expiration]]

\* A router that schedules on the fresh tree first and compares the arrival
\* with the expiration afterwards.
spsn_schedule_then_check(bundle, curr_time, tree, q) ==
    LET dest == bundle.destinations[1]
        route == tree.by_destination[dest]
        none == [result |-> "none", tree |-> tree, queue_size |-> q, log |-> << >>,
                 first_hops |-> {}, add_limit |-> FALSE]
    IN  IF route = 0 THEN [none EXCEPT !.add_limit = TRUE]
        ELSE Bind(schedule_unicast(bundle, curr_time, tree, TRUE, q), LAMBDA u :
             IF tree.stages[route].at_time > bundle.expiration \/ u.panic
             THEN [none EXCEPT !.tree = u.tree, !.queue_size = u.queue_size, !.log = u.log]
             ELSE [result |-> "some", tree |-> u.tree,
                   queue_size |-> u.queue_size, log |-> u.log,
                   first_hops |-> u.first_hops, add_limit |-> FALSE])

\* Spsn::route_unicast, lines 143-158: what is done with a fresh tree.  The
\* destination's label is compared with the bundle's expiration before anything
\* is scheduled.
spsn_schedule_fresh(bundle, curr_time, tree, q) ==
    LET dest == bundle.destinations[1]
        route == tree.by_destination[dest]
        none == [result |-> "none", tree |-> tree, queue_size |-> q, log |-> << >>,
                 first_hops |-> {}, add_limit |-> FALSE]
    IN  IF route = 0 THEN [none EXCEPT !.add_limit = TRUE]
        ELSE IF tree.stages[route].at_time > bundle.expiration THEN none
        ELSE Bind(schedule_unicast(bundle, curr_time, tree, TRUE, q), LAMBDA u :
             [result |-> IF u.panic THEN "panic" ELSE "some", tree |-> u.tree,
              queue_size |-> u.queue_size, log |-> u.log, first_hops |-> u.first_hops,
              add_limit |-> FALSE])

\* Spsn::route_unicast.  P = [W, trees, limits]
spsn_route_unicast(source, bundle, curr_time, excluded_nodes, P) ==
    LET dest == bundle.destinations[1] IN
    IF must_abort(P.limits, bundle)
    THEN [P |-> P, out |-> NoOutcome("none"), fp |-> NoLabels, origin |-> "guard"]
    ELSE Bind(cache_select(P.trees, 1, bundle, curr_time, excluded_nodes, P.W), LAMBDA sel :
    IF sel.hit # 0
    THEN LET hit == sel.trees[sel.hit] IN
         Bind(schedule_unicast(bundle, curr_time, hit, FALSE, P.W.queue_size), LAMBDA uh :
             [P |-> [P EXCEPT !.trees = [sel.trees EXCEPT ![sel.hit] = uh.tree],
                              !.W.queue_size = uh.queue_size],
              out |-> Outcome(IF uh.panic THEN "panic" ELSE "some", uh.first_hops,
                              uh.tree.stages, uh.tree.source, uh.log, TRUE,
                              AtTimes(Chain(hit.stages, hit.source, dest))),
              fp |-> NoLabels, origin |-> "stored"])
    ELSE Bind(pf_get_next(cfg.parenting, TRUE, TRUE, curr_time, source, bundle,
                          excluded_nodes, P.W), LAMBDA g :
         Bind(spsn_schedule_fresh(bundle, curr_time, g.tree, g.W.queue_size), LAMBDA f :
             [P |-> [P EXCEPT !.trees = cache_store(sel.trees, f.tree),
                              !.W = [g.W EXCEPT !.queue_size = f.queue_size],
                              !.limits = IF f.add_limit THEN add_limit(@, bundle, dest)
                                         ELSE @],
              out |-> Outcome(f.result, f.first_hops, f.tree.stages, f.tree.source,
                              f.log, FALSE, << >>),
              fp |-> Labels(g.tree, g.first_pop), origin |-> "search"])))

\* Spsn::route_multicast
spsn_route_multicast(source, bundle, curr_time, excluded_nodes, P) ==
    Bind(cache_select(P.trees, 1, bundle, curr_time, excluded_nodes, P.W), LAMBDA sel :
    IF sel.hit # 0 /\ Len(bundle.destinations) = Len(sel.reached)
    THEN Bind(schedule_multicast(bundle, curr_time, sel.trees[sel.hit], sel.reached,
                                 FALSE, P.W), LAMBDA mh :
             [P |-> [P EXCEPT !.trees = [sel.trees EXCEPT ![sel.hit] = mh.tree],
                              !.W.queue_size = mh.queue_size],
              out |-> Outcome("some", mh.first_hops, mh.tree.stages, mh.tree.source,
                              mh.log, FALSE, << >>),
              fp |-> NoLabels, origin |-> "stored"])
    ELSE Bind(pf_get_next(cfg.parenting, TRUE, TRUE, curr_time, source, bundle,
                          excluded_nodes, P.W), LAMBDA g :
         Bind(schedule_multicast(bundle, curr_time, g.tree, << >>, TRUE, g.W), LAMBDA mn :
             [P |-> [P EXCEPT !.trees = cache_store(sel.trees, mn.tree),
                              !.W = [g.W EXCEPT !.queue_size = mn.queue_size]],
              out |-> Outcome("some", mn.first_hops, mn.tree.stages, mn.tree.source,
                              mn.log, FALSE, << >>),
              fp |-> Labels(g.tree, g.first_pop), origin |-> "search"])))

\* Spsn::route
spsn_route(source, bundle, curr_time, excluded_nodes, P) ==
    IF Len(bundle.destinations) = 1
    THEN spsn_route_unicast(source, bundle, curr_time, excluded_nodes, P)
    ELSE spsn_route_multicast(source, bundle, curr_time, excluded_nodes, P)

\* the alternative-path wrapper the CGR router was built with
wrapper_get_next(current_time, source, bundle, excluded_nodes_sorted, W, S) ==
    IF cfg.wrapper = "limiting"
    THEN limiting_get_next(cfg.parenting, current_time, source, bundle,
                           excluded_nodes_sorted, W, S)
    ELSE legacy_get_next(cfg.parenting, current_time, source, bundle,
                         excluded_nodes_sorted, W, S)

\* the loop of Cgr::route_unicast (cgr.rs 100-134).  P = [W, tables, S].
\* An iteration that finds a route, fails its dry run and leaves the graph and
\* the wrapper as they were is followed by identical iterations: "diverge".
RECURSIVE cgr_loop(_, _, _, _, _)
cgr_loop(source, bundle, curr_time, excluded_nodes, P) ==
    LET dest == bundle.destinations[1]
        bundle_no_constraints == [bundle EXCEPT !.priority = 1, !.size = 0]
    IN
    Bind(wrapper_get_next(curr_time, source, bundle_no_constraints,
                          excluded_nodes, P.W, P.S), LAMBDA g :
    LET found == g.tree.by_destination[dest]
        P1 == [P EXCEPT !.W = g.W, !.S = g.S]
    IN
    IF found = 0 THEN [P |-> P1, out |-> NoOutcome("none"), origin |-> "search"]
    ELSE
    Bind(Route_from_tree([g.tree EXCEPT !.stages = init_route(@, found)], dest),
         LAMBDA route :
    Bind(dry_run_unicast_path_with_exclusions(bundle, curr_time, route.stages,
             route.source_stage, route.destination_stage, g.W), LAMBDA d :
    IF d.ok
    THEN Bind(schedule_unicast_path(bundle, curr_time, d.stages, route.source_stage,
                                    g.W.queue_size), LAMBDA u :
             [P |-> [P1 EXCEPT !.tables = table_store(@, bundle,
                                              [route EXCEPT !.stages = u.stages]),
                               !.W.queue_size = u.queue_size],
              out |-> Outcome(IF u.panic THEN "panic" ELSE "some", u.first_hops,
                              u.stages, route.source_stage, u.log, TRUE,
                              AtTimes(Chain(d.stages, route.source_stage, dest))),
              origin |-> "search"])
    ELSE Bind([P1 EXCEPT !.tables = table_store(@, bundle,
                                        [route EXCEPT !.stages = d.stages])], LAMBDA P2 :
         IF g.W = P.W /\ g.S = P.S
         THEN [P |-> P2, out |-> NoOutcome("diverge"), origin |-> "search"]
         ELSE cgr_loop(source, bundle, curr_time, excluded_nodes, P2)))))

\* Cgr::route_unicast
cgr_route_unicast(source, bundle, curr_time, excluded_nodes, P) ==
    LET dest == bundle.destinations[1] IN
    Bind([P.W EXCEPT !.excluded = prepare_for_exclusions_sorted(@, excluded_nodes)],
         LAMBDA W1 :
    Bind(table_select(P.tables[dest], 1, << >>, 0, bundle, curr_time, W1), LAMBDA sel :
    LET P1 == [P EXCEPT !.W = W1, !.tables[dest] = sel.routes] IN
    IF sel.best # 0
    THEN LET route == sel.routes[sel.best] IN
         Bind(schedule_unicast_path(bundle, curr_time, route.stages, route.source_stage,
                                    W1.queue_size), LAMBDA u :
             [P |-> [P1 EXCEPT !.tables[dest][sel.best].stages = u.stages,
                               !.W.queue_size = u.queue_size],
              out |-> Outcome(IF u.panic THEN "panic" ELSE "some", u.first_hops,
                              u.stages, route.source_stage, u.log, TRUE,
                              AtTimes(Chain(route.stages, route.source_stage, dest))),
              origin |-> "stored"])
    ELSE cgr_loop(source, bundle, curr_time, excluded_nodes, P1)))

\* Cgr::route: a bundle with several destinations reaches todo!()
cgr_route(source, bundle, curr_time, excluded_nodes, P) ==
    IF Len(bundle.destinations) = 1
    THEN cgr_route_unicast(source, bundle, curr_time, excluded_nodes, P)
    ELSE [P |-> P, out |-> NoOutcome("panic"), origin |-> "search"]

\* ---------------------------------------------------------------------- MPT
Distances == {"SABR", "Hop"}

\* Distance::cmp of the distance the pathfinder was built with
Distance_cmp(D, first, second) ==
    IF D = "Hop" THEN Hop_cmp(first, second) ELSE SABR_cmp(first, second)

\* A can_retain that also keeps a proposition that is no better on the
\* secondary metric.
can_retain_weak(D, prop, known) ==
    IF D = "Hop" THEN prop.at_time <= known.at_time
    ELSE prop.hop_count <= known.hop_count

\* can_retain of sabr.rs and of hop.rs
can_retain(D, prop, known) ==
    IF D = "Hop" THEN prop.at_time < known.at_time
    ELSE prop.hop_count < known.hop_count

\* must_prune of sabr.rs and of hop.rs
must_prune(D, prop, known) ==
    prop.at_time <= known.at_time /\ prop.hop_count <= known.hop_count

\* the stages as DistanceWrapper<D> orders them in the priority queue: the
\* Hop order is the SABR order with hop_count and at_time exchanged
Wrapped(D, stages) ==
    IF D = "Hop"
    THEN [i \in 1..Len(stages) |-> [stages[i] EXCEPT !.at_time = stages[i].hop_count,
                                                     !.hop_count = stages[i].at_time]]
    ELSE stages

\* try_insert, the for loop (165-188): insert and insert_index when it ends
RECURSIVE insert_scan(_, _, _, _, _)
insert_scan(D, proposition, stages, routes, idx) ==
    IF idx >= Len(routes) THEN [insert |-> TRUE, insert_index |-> Len(routes)]
    ELSE Bind(Distance_cmp(D, proposition, stages[routes[idx + 1]]), LAMBDA ord :
         IF ord = -1 THEN [insert |-> TRUE, insert_index |-> idx]
         ELSE IF ord = 0 THEN [insert |-> FALSE, insert_index |-> Len(routes)]
         ELSE IF can_retain(D, proposition, stages[routes[idx + 1]])
              THEN insert_scan(D, proposition, stages, routes, idx + 1)
              ELSE [insert |-> FALSE, insert_index |-> Len(routes)])

\* try_insert, the while loop (192-198): the index of the first prune event
RECURSIVE prune_scan(_, _, _, _, _)
prune_scan(D, proposition, stages, routes, truncate_index) ==
    IF truncate_index >= Len(routes) THEN truncate_index
    ELSE IF must_prune(D, proposition, stages[routes[truncate_index + 1]])
         THEN truncate_index
         ELSE prune_scan(D, proposition, stages, routes, truncate_index + 1)

\* try_insert on the vector routes of the proposition's node; id = 0 is None
try_insert(D, proposition, stages, routes) ==
    LET id == Len(stages) + 1 IN
    IF routes = << >>
    THEN [id |-> id, stages |-> Append(stages, proposition), routes |-> << id >>]
    ELSE Bind(insert_scan(D, proposition, stages, routes, 0), LAMBDA s :
         IF ~s.insert THEN [id |-> 0, stages |-> stages, routes |-> routes]
         ELSE Bind(prune_scan(D, proposition, stages, routes, s.insert_index),
                   LAMBDA truncate_index :
              LET cut == {routes[k] : k \in (truncate_index + 1)..Len(routes)}
                  kept == SubSeq(routes, 1, truncate_index)
              IN  [id |-> id,
                   stages |-> Append([i \in 1..Len(stages) |->
                                         IF i \in cut
                                         THEN [stages[i] EXCEPT !.is_disabled = TRUE]
                                         ELSE stages[i]], proposition),
                   routes |-> SubSeq(kept, 1, s.insert_index) \o << id >>
                              \o SubSeq(kept, s.insert_index + 1, Len(kept))]))

\* the stages from the source to stage id, as pretty_print lists them
RECURSIVE RouteTo(_, _)
RouteTo(stages, id) ==
    IF id = 0 THEN << >>
    ELSE Append(RouteTo(stages, stages[id].parent),
                [to_node |-> stages[id].to_node, at_time |-> stages[id].at_time,
                 hop_count |-> stages[id].hop_count])

NoRoutes == [n \in Nodes |-> << >>]

\* the routes a PathFindingOutput holds, by destination
RoutesOf(tree) == [n \in Nodes |-> RouteTo(tree.stages, tree.by_destination[n])]

NoInsert == [done |-> FALSE, proposition |-> RouteStage_new(0, 0, 0, 0),
             before |-> << >>, after |-> << >>, id |-> 0]

\* an Mpt pathfinder before its first get_next
NoMpt ==
    [pc |-> "idle", D |-> "SABR", is_tree_output |-> FALSE,
     bundle |-> [source |-> 0, destinations |-> << 0 >>, priority |-> 0, size |-> 0,
                 expiration |-> 0],
     t |-> 0, stages |-> << >>, by_destination |-> NoRoutes, pq |-> << >>,
     from_route |-> 0, rxs |-> << >>, ins |-> NoInsert, out |-> NoRoutes,
     node_parenting |-> NoRoutes, contact_parenting |-> NoRoutes]

\* get_next 341-345: every vector is truncated to its first label
to_pathfinding_output(m) ==
    [m EXCEPT !.pc = "done", !.from_route = 0, !.rxs = << >>,
              !.by_destination = [n \in Nodes |->
                                     IF m.by_destination[n] = << >> THEN << >>
                                     ELSE << m.by_destination[n][1] >>],
              !.out = [n \in Nodes |->
                          IF m.by_destination[n] = << >> THEN << >>
                          ELSE RouteTo(m.stages, m.by_destination[n][1])]]

\* ------------------------------------------------------------------- inputs
MkBundle(destinations, size, expiration) ==
    [source |-> 0, destinations |-> destinations, priority |-> 0, size |-> size,
     expiration |-> expiration]

Bundles ==
    { MkBundle(<< 3 >>, 2, 100), MkBundle(<< 3 >>, 2, 2),
      MkBundle(<< 2, 3 >>, 2, 100), MkBundle(<< 2, 3 >>, 2, 2),
      MkBundle(<< 2 >>, 0, 100), MkBundle(<< 0 >>, 0, 100),
      MkBundle(<< 3 >>, 0, 100), MkBundle(<< 1, 2, 3 >>, 2, 100) }

Times == {0, 12}
Sources == {0}
Exclusions == { << >>, << 1 >> }

Routers ==
    { [router |-> "spsn", parenting |-> "node", wrapper |-> "none"],
      [router |-> "spsn", parenting |-> "contact", wrapper |-> "none"],
      [router |-> "cgr", parenting |-> "node", wrapper |-> "limiting"],
      [router |-> "cgr", parenting |-> "contact", wrapper |-> "limiting"],
      [router |-> "cgr", parenting |-> "node", wrapper |-> "legacy"] }

Configs ==
    { [plan |-> p, mgr |-> m, router |-> r.router, parenting |-> r.parenting,
       wrapper |-> r.wrapper] : p \in 1..Len(Plans), m \in {"EVL", "QD"}, r \in Routers }

\* ------------------------------------------------------------ state machine
\* the record of a route call, before any call was made
NoCall ==
    [called |-> FALSE, source |-> 0, bundle |-> MkBundle(<< 0 >>, 0, 0),
     t |-> 0, excluded |-> << >>, pre_queue |-> [c \in ContactIds |-> 0],
     pre_suppressed |-> [c \in ContactIds |-> FALSE],
     pre_limits |-> NoLimit, pre_next |-> [p \in Pairs |-> 0],
     out |-> NoOutcome("init"), fp |-> NoLabels, origin |-> "init"]

Init ==
    /\ cfg \in Configs
    /\ now = 0
    /\ calls = 0
    /\ queue_size = [c \in ContactIds |-> 0]
    /\ committed = [c \in ContactIds |-> 0]
    /\ suppressed = [c \in ContactIds |-> FALSE]
    /\ work_area = [c \in ContactIds |-> 0]
    /\ excluded = [n \in Nodes |-> FALSE]
    /\ next = [p \in Pairs |-> 0]
    /\ trees = << >>
    /\ tables = [n \in Nodes |-> << >>]
    /\ suppression_map = [n \in Nodes |-> << >>]
    /\ next_to_suppress = 0
    /\ known_limits = NoLimit
    /\ last = NoCall
    /\ prev = NoCall
    /\ mpt = NoMpt
    /\ cm = NoCm

Graph == [queue_size |-> queue_size, suppressed |-> suppressed, excluded |-> excluded,
          next |-> next, work_area |-> work_area]

Alive == calls < MaxCalls /\ last.out.result \notin {"panic", "diverge"}

Booked(log, c) ==
    LET idx == {i \in 1..Len(log) : log[i].contact = c}
    IN  IF idx = {} THEN 0 ELSE Cardinality(idx) * log[CHOOSE i \in idx : TRUE].size

\* what every route call does to the graph and to the bookkeeping
Returned(source, bundle, t, excl, W, out, fp, origin) ==
    /\ now' = t
    /\ calls' = calls + 1
    /\ queue_size' = W.queue_size
    /\ suppressed' = W.suppressed
    /\ excluded' = W.excluded
    /\ next' = W.next
    /\ work_area' = W.work_area
    /\ committed' = [c \in ContactIds |-> committed[c] + Booked(out.log, c)]
    /\ last' = [called |-> TRUE, source |-> source, bundle |-> bundle, t |-> t,
                excluded |-> excl, pre_queue |-> queue_size,
                pre_suppressed |-> suppressed, pre_limits |-> known_limits,
                pre_next |-> next, out |-> out, fp |-> fp, origin |-> origin]
    /\ prev' = last
    /\ UNCHANGED << cfg, mpt, cm >>

\* Router::route on an SPSN router
RouteSpsn ==
    /\ cfg.router = "spsn"
    /\ Alive
    /\ \E source \in Sources, bundle \in Bundles, t \in Times, excl \in Exclusions :
          /\ t >= now
          /\ \E r \in {spsn_route(source, bundle, t, excl,
                                  [W |-> Graph, trees |-> trees, limits |-> known_limits])} :
                 /\ Returned(source, bundle, t, excl, r.P.W, r.out, r.fp, r.origin)
                 /\ trees' = r.P.trees
                 /\ known_limits' = r.P.limits
    /\ UNCHANGED << tables, suppression_map, next_to_suppress >>

\* Router::route on a CGR router
RouteCgr ==
    /\ cfg.router = "cgr"
    /\ Alive
    /\ \E source \in Sources, bundle \in Bundles, t \in Times, excl \in Exclusions :
          /\ t >= now
          /\ \E r \in {cgr_route(source, bundle, t, excl,
                                 [W |-> Graph, tables |-> tables,
                                  S |-> [suppression_map |-> suppression_map,
                                         next_to_suppress |-> next_to_suppress]])} :
                 /\ Returned(source, bundle, t, excl, r.P.W, r.out, NoLabels, r.origin)
                 /\ tables' = r.P.tables
                 /\ suppression_map' = r.P.S.suppression_map
                 /\ next_to_suppress' = r.P.S.next_to_suppress
    /\ UNCHANGED << trees, known_limits >>

Next == RouteSpsn \/ RouteCgr

Spec == Init /\ [][Next]_vars

\* ------------------------------------- state machine of an Mpt pathfinder
\* An MptTree or MptPath pathfinder (SABR or Hop distance) on a multigraph
\* without bookings; a get_next call is followed step by step: one pop of the
\* priority queue, then one receiver of the popped label's node at a time.
MptConfigs ==
    { [plan |-> p, mgr |-> m, router |-> "mpt", parenting |-> "mpt", wrapper |-> "none"]
      : p \in 1..Len(AllPlans), m \in {"EVL", "QD"} }

InitMpt ==
    /\ cfg \in MptConfigs
    /\ now = 0
    /\ calls = 0
    /\ queue_size = [c \in ContactIds |-> 0]
    /\ committed = [c \in ContactIds |-> 0]
    /\ suppressed = [c \in ContactIds |-> FALSE]
    /\ work_area = [c \in ContactIds |-> 0]
    /\ excluded = [n \in Nodes |-> FALSE]
    /\ next = [p \in Pairs |-> 0]
    /\ trees = << >>
    /\ tables = [n \in Nodes |-> << >>]
    /\ suppression_map = [n \in Nodes |-> << >>]
    /\ next_to_suppress = 0
    /\ known_limits = NoLimit
    /\ last = NoCall
    /\ prev = NoCall
    /\ mpt \in {[NoMpt EXCEPT !.D = d, !.is_tree_output = v] :
                   d \in Distances, v \in BOOLEAN}
    /\ cm = NoCm

\* get_next 277-293, and the node- and contact-parenting pathfinders of the
\* same kind asked the same question on the same multigraph
MptGetNext ==
    /\ mpt.pc \in {"idle", "done"}
    /\ calls < MaxCalls
    /\ \E source \in Sources, bundle \in Bundles, t \in Times, excl \in Exclusions :
          /\ t >= now
          /\ now' = t
          /\ excluded' = IF mpt.is_tree_output
                         THEN prepare_for_exclusions_sorted(excluded, excl)
                         ELSE excluded
          /\ mpt' = [mpt EXCEPT
                !.pc = "run", !.bundle = bundle, !.t = t,
                !.stages = << RouteStage_new(t, source, 0, 0) >>,
                !.by_destination = [NoRoutes EXCEPT ![source] = << 1 >>],
                !.pq = << 1 >>, !.from_route = 0, !.rxs = << >>,
                !.ins = NoInsert, !.out = NoRoutes,
                !.node_parenting =
                    RoutesOf(pf_get_next("node", mpt.is_tree_output, mpt.is_tree_output,
                                         t, source, bundle, excl, Graph).tree),
                !.contact_parenting =
                    RoutesOf(pf_get_next("contact", mpt.is_tree_output, mpt.is_tree_output,
                                         t, source, bundle, excl, Graph).tree)]
    /\ calls' = calls + 1
    /\ UNCHANGED << cfg, queue_size, committed, suppressed, work_area, next, trees, tables,
                    suppression_map, next_to_suppress, known_limits, last, prev, cm >>

\* A pop that leaves a disabled label at the head of the priority queue.
MptPopKeepsDisabled ==
    /\ mpt.pc = "run" /\ mpt.from_route = 0 /\ mpt.pq # << >>
    /\ \E p \in {heap_pop(Wrapped(mpt.D, mpt.stages), mpt.pq)} :
          LET from == mpt.stages[p.item]
              popped == [mpt EXCEPT !.pq = p.heap, !.ins = NoInsert]
          IN  mpt' = IF from.is_disabled THEN mpt
                     ELSE IF ~mpt.is_tree_output
                             /\ mpt.bundle.destinations[1] = from.to_node
                          THEN to_pathfinding_output(popped)
                     ELSE [popped EXCEPT
                              !.from_route = IF receivers(from.to_node) = << >>
                                             THEN 0 ELSE p.item,
                              !.rxs = receivers(from.to_node)]
    /\ UNCHANGED << cfg, now, calls, queue_size, committed, suppressed, work_area,
                    excluded, next, trees, tables, suppression_map, next_to_suppress,
                    known_limits, last, prev, cm >>

\* get_next 295-308: one pop of the priority queue
MptPop ==
    /\ mpt.pc = "run" /\ mpt.from_route = 0 /\ mpt.pq # << >>
    /\ \E p \in {heap_pop(Wrapped(mpt.D, mpt.stages), mpt.pq)} :
          LET from == mpt.stages[p.item]
              popped == [mpt EXCEPT !.pq = p.heap, !.ins = NoInsert]
          IN  mpt' = IF from.is_disabled THEN popped
                     ELSE IF ~mpt.is_tree_output
                             /\ mpt.bundle.destinations[1] = from.to_node
                          THEN to_pathfinding_output(popped)
                     ELSE [popped EXCEPT
                              !.from_route = IF receivers(from.to_node) = << >>
                                             THEN 0 ELSE p.item,
                              !.rxs = receivers(from.to_node)]
    /\ UNCHANGED << cfg, now, calls, queue_size, committed, suppressed, work_area,
                    excluded, next, trees, tables, suppression_map, next_to_suppress,
                    known_limits, last, prev, cm >>

\* get_next 310-337: one receiver of the popped label's node
MptHop ==
    /\ mpt.pc = "run" /\ mpt.from_route # 0
    /\ LET rx == Head(mpt.rxs)
           tx == mpt.stages[mpt.from_route].to_node
           rest == Tail(mpt.rxs)
           passed == [mpt EXCEPT !.rxs = rest, !.ins = NoInsert,
                                 !.from_route = IF rest = << >> THEN 0 ELSE @]
       IN  IF mpt.is_tree_output /\ excluded[rx]
           THEN mpt' = passed /\ next' = next
           ELSE \E lp \in {lazy_prune_and_get_first_idx(next[<< tx, rx >>],
                                contacts_to_receiver(tx, rx), mpt.t)} :
                /\ next' = [next EXCEPT ![<< tx, rx >>] = lp.next]
                /\ \E prop \in {IF lp.found
                                THEN try_make_hop(lp.idx, mpt.stages[mpt.from_route],
                                                  mpt.from_route, mpt.bundle,
                                                  contacts_to_receiver(tx, rx),
                                                  queue_size, suppressed)
                                ELSE NoHop} :
                      IF ~prop.ok THEN mpt' = passed
                      ELSE \E r \in {try_insert(mpt.D, prop.stage, mpt.stages,
                                                mpt.by_destination[rx])} :
                           mpt' = [passed EXCEPT
                               !.stages = r.stages,
                               !.by_destination[rx] = r.routes,
                               !.pq = IF r.id # 0
                                      THEN heap_push(Wrapped(mpt.D, r.stages), @, r.id)
                                      ELSE @,
                               !.ins = [done |-> TRUE, proposition |-> prop.stage,
                                        before |-> mpt.by_destination[rx],
                                        after |-> r.routes, id |-> r.id]]
    /\ UNCHANGED << cfg, now, calls, queue_size, committed, suppressed, work_area,
                    excluded, trees, tables, suppression_map, next_to_suppress,
                    known_limits, last, prev, cm >>

\* get_next 341-345: the queue is empty
MptReturn ==
    /\ mpt.pc = "run" /\ mpt.from_route = 0 /\ mpt.pq = << >>
    /\ mpt' = to_pathfinding_output([mpt EXCEPT !.ins = NoInsert])
    /\ UNCHANGED << cfg, now, calls, queue_size, committed, suppressed, work_area,
                    excluded, next, trees, tables, suppression_map, next_to_suppress,
                    known_limits, last, prev, cm >>

NextMpt == MptGetNext \/ MptPop \/ MptHop \/ MptReturn

SpecMpt == InitMpt /\ [][NextMpt]_vars

\* a get_next call that has started keeps running: its loop takes the next
\* pop, the next receiver or the return whenever one is possible
SpecMptLive ==
    SpecMpt /\ WF_vars(MptPop) /\ WF_vars(MptHop) /\ WF_vars(MptReturn)

\* ------------------------------------ state machine of one managed contact
\* One contact built with Contact::try_new and then driven through its
\* manager: schedule_tx, and enqueue and dequeue where the manager has them.
MaxOps == 2

CmInfos ==
    { [start |-> 0, end |-> 100, rate |-> 1, delay |-> 0],
      [start |-> 0, end |-> 20, rate |-> 1, delay |-> 1],
      [start |-> 5, end |-> 5, rate |-> 1, delay |-> 0],
      [start |-> 0, end |-> 20, rate |-> -1, delay |-> 0],
      [start |-> 0, end |-> 20, rate |-> 1, delay |-> -1] }

MkSegment(start, end, val) == [start |-> start, end |-> end, val |-> val]

\* SegmentationManager::new
SegmentationManager_new(rate_intervals, delay_intervals) ==
    [free_intervals |-> << >>, rate_intervals |-> rate_intervals,
     delay_intervals |-> delay_intervals]

CmSegs ==
    { SegmentationManager_new(<< MkSegment(0, 10, 1), MkSegment(10, 20, 2) >>,
                              << MkSegment(0, 20, 1) >>),
      SegmentationManager_new(<< MkSegment(0, 8, 1), MkSegment(10, 20, 2) >>,
                              << MkSegment(0, 20, 1) >>),
      SegmentationManager_new(<< MkSegment(0, 10, 1), MkSegment(10, 20, 2) >>,
                              << MkSegment(0, 10, 1) >>),
      SegmentationManager_new(<< >>, << MkSegment(0, 20, 1) >>) }

CmBundles ==
    { [size |-> 2, priority |-> 0], [size |-> 20, priority |-> 0],
      [size |-> 20, priority |-> 1], [size |-> 90, priority |-> 0] }

CmTimes == {0, 3, 15}

\* Contact::try_new: ContactInfo::try_init, then the manager's try_init
try_new(m, info, seg) ==
    LET init == IF m.macro = "seg" THEN seg_try_init(seg, info)
                ELSE [ok |-> TRUE, free_intervals |-> << >>]
    IN  IF info.start < info.end /\ init.ok
        THEN [NoCm EXCEPT !.pc = "built", !.m = m, !.info = info,
                          !.queue_size = IF m.macro = "prio" THEN prio_try_init(m, info)
                                         ELSE << 0, 0, 0 >>,
                          !.seg = [seg EXCEPT !.free_intervals = init.free_intervals]]
        ELSE [NoCm EXCEPT !.pc = "refused", !.m = m, !.info = info, !.seg = seg]

\* ContactManager::dry_run_tx of the contact's manager
manager_dry_run_tx(c, at_time, bundle) ==
    CASE c.m.macro = "seg" -> seg_dry_run(c.seg, at_time, bundle)
      [] c.m.macro = "prio" ->
            prio_dry_run_tx(c.m, c.info, at_time, bundle, c.queue_size)
      [] OTHER -> dry_run_tx(c.m.name, c.info, at_time, bundle, c.queue_size[1])

\* ContactManager::schedule_tx of the contact's manager; a priority past the
\* manager's levels is an index out of bounds
manager_schedule_tx(c, at_time, bundle) ==
    LET op == [name |-> "schedule_tx", at_time |-> at_time, size |-> bundle.size,
               priority |-> bundle.priority, pre_queue |-> c.queue_size,
               pre_free |-> c.seg.free_intervals,
               data |-> manager_dry_run_tx(c, at_time, bundle)]
        done == [c EXCEPT !.ops = c.ops + 1, !.op = op,
                          !.booked = IF op.data.ok
                                     THEN Append(c.booked,
                                                 [tx_start |-> op.data.tx_start,
                                                  tx_end |-> op.data.tx_end,
                                                  size |-> bundle.size,
                                                  priority |-> bundle.priority])
                                     ELSE c.booked]
    IN  CASE c.m.macro = "seg" ->
               LET r == seg_schedule(c.seg, at_time, bundle)
               IN  [done EXCEPT !.seg.free_intervals = r.free_intervals,
                                !.op.data = r.data]
          [] c.m.macro = "prio" ->
               IF bundle.priority >= c.m.prio_count
               THEN [c EXCEPT !.pc = "panic", !.ops = c.ops + 1,
                              !.op = [op EXCEPT !.data = NoTx]]
               ELSE [done EXCEPT !.queue_size =
                        prio_schedule_tx(c.m, c.info, at_time, bundle,
                                         c.queue_size).queue_size]
          [] OTHER ->
               [done EXCEPT !.queue_size[1] =
                   schedule_tx(c.m.name, c.info, at_time, bundle,
                               c.queue_size[1]).queue_size]

InitCm ==
    /\ cfg = [plan |-> 1, mgr |-> "EVL", router |-> "none", parenting |-> "none",
              wrapper |-> "none"]
    /\ now = 0
    /\ calls = 0
    /\ queue_size = [c \in ContactIds |-> 0]
    /\ committed = [c \in ContactIds |-> 0]
    /\ suppressed = [c \in ContactIds |-> FALSE]
    /\ work_area = [c \in ContactIds |-> 0]
    /\ excluded = [n \in Nodes |-> FALSE]
    /\ next = [p \in Pairs |-> 0]
    /\ trees = << >>
    /\ tables = [n \in Nodes |-> << >>]
    /\ suppression_map = [n \in Nodes |-> << >>]
    /\ next_to_suppress = 0
    /\ known_limits = NoLimit
    /\ last = NoCall
    /\ prev = NoCall
    /\ mpt = NoMpt
    /\ cm \in {[NoCm EXCEPT !.m = m] : m \in Managers}

\* Contact::try_new
CmTryNew ==
    /\ cm.pc = "new"
    /\ \E info \in CmInfos :
          \E seg \in IF cm.m.macro = "seg" THEN CmSegs
                     ELSE {SegmentationManager_new(<< >>, << >>)} :
             cm' = try_new(cm.m, info, seg)
    /\ UNCHANGED << cfg, now, calls, queue_size, committed, suppressed, work_area,
                    excluded, next, trees, tables, suppression_map, next_to_suppress,
                    known_limits, last, prev, mpt >>

\* schedule_tx; on a SegmentationManager after a dry run that succeeded
CmScheduleTx ==
    /\ cm.pc = "built"
    /\ cm.ops < MaxOps
    /\ cm.info.rate > 0
    /\ \E bundle \in CmBundles, at_time \in CmTimes :
          /\ cm.m.macro = "seg" => seg_dry_run(cm.seg, at_time, bundle).ok
          /\ cm' = manager_schedule_tx(cm, at_time, bundle)
    /\ UNCHANGED << cfg, now, calls, queue_size, committed, suppressed, work_area,
                    excluded, next, trees, tables, suppression_map, next_to_suppress,
                    known_limits, last, prev, mpt >>

\* enqueue of a manager built with auto_update = false
CmEnqueue ==
    /\ cm.pc = "built"
    /\ cm.ops < MaxOps
    /\ ~cm.m.auto_update
    /\ \E bundle \in CmBundles :
          /\ bundle.priority < cm.m.prio_count
          /\ \E r \in {IF cm.m.macro = "prio"
                       THEN prio_enqueue(cm.info, cm.queue_size, bundle)
                       ELSE enqueue(cm.info, cm.queue_size, bundle)} :
                cm' = [cm EXCEPT !.pc = IF r.panic THEN "panic" ELSE "built",
                                 !.queue_size = r.queue_size,
                                 !.queued = IF r.panic THEN cm.queued
                                            ELSE Append(cm.queued, bundle),
                                 !.ops = cm.ops + 1,
                                 !.op = [name |-> "enqueue", at_time |-> 0,
                                         size |-> bundle.size,
                                         priority |-> bundle.priority,
                                         pre_queue |-> cm.queue_size,
                                         pre_free |-> << >>, data |-> NoTx]]
    /\ UNCHANGED << cfg, now, calls, queue_size, committed, suppressed, work_area,
                    excluded, next, trees, tables, suppression_map, next_to_suppress,
                    known_limits, last, prev, mpt >>

\* dequeue of a bundle that was enqueued and is still queued
CmDequeue ==
    /\ cm.pc = "built"
    /\ cm.ops < MaxOps
    /\ ~cm.m.auto_update
    /\ \E i \in 1..Len(cm.queued) :
          \E r \in {IF cm.m.macro = "prio"
                    THEN prio_dequeue(cm.info, cm.queue_size, cm.queued[i])
                    ELSE dequeue(cm.info, cm.queue_size, cm.queued[i])} :
             cm' = [cm EXCEPT !.pc = IF r.panic THEN "panic" ELSE "built",
                              !.queue_size = r.queue_size,
                              !.queued = IF r.panic THEN cm.queued
                                         ELSE SubSeq(cm.queued, 1, i - 1)
                                              \o SubSeq(cm.queued, i + 1, Len(cm.queued)),
                              !.ops = cm.ops + 1,
                              !.op = [name |-> "dequeue", at_time |-> 0,
                                      size |-> cm.queued[i].size,
                                      priority |-> cm.queued[i].priority,
                                      pre_queue |-> cm.queue_size,
                                      pre_free |-> << >>, data |-> NoTx]]
    /\ UNCHANGED << cfg, now, calls, queue_size, committed, suppressed, work_area,
                    excluded, next, trees, tables, suppression_map, next_to_suppress,
                    known_limits, last, prev, mpt >>

NextCm == CmTryNew \/ CmScheduleTx \/ CmEnqueue \/ CmDequeue

SpecCm == InitCm /\ [][NextCm]_vars

\* ------------------------------------------------------ feasible sequences
\* The labels of the feasible contact sequences: from a label at a node, any
\* contact leaving that node to a node that is not excluded, on which the
\* manager accepts the bundle at the label's time, gives a label at its rx node.
Extend(l, c, bundle, q) ==
    LET hop == dry_run_tx(cfg.mgr, CP[c], l.at_time, bundle, q[c])
    IN  [node |-> CP[c].rx, at_time |-> hop.arrival, hop_count |-> l.hop_count + 1,
         cumulative_delay |-> l.cumulative_delay + hop.delay,
         expiration |-> Min(hop.expiration - l.cumulative_delay, l.expiration)]

RECURSIVE FeasibleFrom(_, _, _, _)
FeasibleFrom(L, bundle, q, excl) ==
    LET Out(l) == {k \in ContactIds :
                      /\ CP[k].tx = l.node
                      /\ CP[k].rx \notin excl
                      /\ l.hop_count < Len(CP)
                      /\ dry_run_tx(cfg.mgr, CP[k], l.at_time, bundle, q[k]).ok}
        more == UNION {{Extend(l, c, bundle, q) : c \in Out(l)} : l \in L}
    IN  IF more \subseteq L THEN L ELSE FeasibleFrom(L \cup more, bundle, q, excl)

Feasible(t, source, bundle, q, excl) ==
    FeasibleFrom({[node |-> source, at_time |-> t, hop_count |-> 0,
                   cumulative_delay |-> 0, expiration |-> DateMax]}, bundle, q, excl)

\* the nodes some time-respecting sequence of contacts reaches from the source
\* when leaving at t, whatever the bundle's size and the bookings
TimeReachable(t, source) ==
    {l.node : l \in Feasible(t, source, MkBundle(<< source >>, 0, DateMax),
                             [c \in ContactIds |-> 0], {})}

\* ---------------------------------------------------------------- properties
Unicast == Len(last.bundle.destinations) = 1
Dest == last.bundle.destinations[1]
ChainContacts(d) == {last.out.chains[d][i].via : i \in 1..Len(last.out.chains[d])}
ChainNodes(d) == {last.out.chains[d][i].to_node : i \in 1..Len(last.out.chains[d])}

\* C1: after a unicast route call returns an output, every contact of the
\* returned source-to-destination chain has its booked volume increased by
\* exactly bundle.size and every other contact's booked volume is unchanged.
C1_ChainBooked ==
    (last.out.result = "some" /\ Unicast) =>
        \A c \in ContactIds :
            queue_size[c] = last.pre_queue[c]
                            + (IF c \in ChainContacts(Dest) THEN last.bundle.size ELSE 0)

C1_Witness ==
    /\ last.out.result = "some" /\ Unicast
    /\ last.bundle.size > 0
    /\ Cardinality(ChainContacts(Dest)) >= 2
    /\ \E c \in ChainContacts(Dest) : last.pre_queue[c] > 0
    /\ \E c \in ContactIds : c \notin ChainContacts(Dest) /\ last.pre_queue[c] > 0

\* C2: whenever route returns none, the booked volume of every contact is what
\* it was before the call.
C2_NoneKeepsBookings ==
    last.out.result = "none" => queue_size = last.pre_queue

C2_Witness ==
    /\ last.out.result = "none"
    /\ last.bundle.size > 0
    /\ Dest \in TimeReachable(last.t, last.source)
    /\ \E c \in ContactIds : last.pre_queue[c] > 0

\* C3: the total size committed on a contact never exceeds (end - start) * rate
\* and every committed transmission lies inside the contact's window.
C3_VolumeAndWindow ==
    /\ \A c \in ContactIds : committed[c] <= original_volume(CP[c])
    /\ \A i \in 1..Len(last.out.log) :
          LET tx == last.out.log[i] IN
          /\ CP[tx.contact].start <= tx.tx_start
          /\ tx.tx_start <= tx.tx_end
          /\ tx.tx_end <= CP[tx.contact].end

\* a contact is left with less volume than the bundle needs and the call books
\* a later contact of the same pair
C3_Witness ==
    \E c \in ContactIds, i \in 1..Len(last.out.log) :
        /\ last.bundle.size > original_volume(CP[c]) - last.pre_queue[c]
        /\ last.pre_queue[c] > 0
        /\ CP[last.out.log[i].contact].tx = CP[c].tx
        /\ CP[last.out.log[i].contact].rx = CP[c].rx
        /\ last.out.log[i].contact # c

\* C4: in every output, each destination listed under a first hop has a
\* destination stage with at_time <= bundle.expiration.
C4_ListedBeforeExpiration ==
    last.out.result = "some" =>
        \A d \in Listed(last.out.first_hops) :
            LET chain == last.out.chains[d] IN
            chain # << >> => chain[Len(chain)].at_time <= last.bundle.expiration

\* C5: a unicast dry run that succeeds and is followed at once by the schedule
\* at the same time: the schedule succeeds on every stage and every stage
\* keeps the at_time the dry run computed.
C5_ScheduleRepeatsDryRun ==
    last.out.dry_ran =>
        /\ last.out.result = "some"
        /\ AtTimes(last.out.chains[Dest]) = last.out.dry_at

C5_Witness ==
    /\ last.out.dry_ran
    /\ cfg.mgr = "QD"
    /\ last.bundle.size > 0
    /\ Len(last.out.dry_at) >= 2
    /\ \E c \in ChainContacts(Dest) : last.pre_queue[c] > 0

\* C6: within a route call for a single-destination bundle the committing
\* traversal never fails: "Faulty dry run" is never reached.
C6_NoFaultyDryRun ==
    Unicast => last.out.result # "panic"

\* the feasible labels of the search the last call made
LastFeasible ==
    Feasible(last.t, last.source, last.bundle, last.pre_queue, SeqToSet(last.excluded))

C8_UnreachableGivesNone ==
    (/\ last.called
     /\ \A i \in 1..Len(last.bundle.destinations) :
            last.bundle.destinations[i] \notin TimeReachable(last.t, last.source))
    => last.out.result = "none"

\* C9: no output contains a stage, other than the source, whose node is in the
\* excluded list.
C9_NoExcludedStage ==
    last.out.result = "some" =>
        \A d \in Listed(last.out.first_hops) :
            ChainNodes(d) \cap SeqToSet(last.excluded) = {}

\* C10: after a CGR route call returns, no contact is suppressed and no
\* contact's work area holds a label.
C10_GraphRestored ==
    (cfg.router = "cgr" /\ last.out.result \in {"some", "none"}) =>
        \A c \in ContactIds : ~suppressed[c] /\ work_area[c] = 0

\* -------------------------------------------------- two calls in succession
\* the last call was given what the call before it was given
SameArguments ==
    /\ prev.called /\ last.called
    /\ last.source = prev.source /\ last.bundle = prev.bundle
    /\ last.t = prev.t /\ last.excluded = prev.excluded

PrevDest == prev.bundle.destinations[1]
PrevChain == prev.out.chains[PrevDest]

\* the earliest-ending contact of the chain the call before the last committed;
\* of two contacts ending together, the one nearer to the destination
PrevLimiting ==
    LET i == CHOOSE i \in 1..Len(PrevChain) :
                 \A j \in 1..Len(PrevChain) :
                     \/ CP[PrevChain[i].via].end < CP[PrevChain[j].via].end
                     \/ CP[PrevChain[i].via].end = CP[PrevChain[j].via].end /\ j <= i
    IN  PrevChain[i].via

CgrCommittedBefore ==
    /\ cfg.router = "cgr"
    /\ SameArguments
    /\ Len(prev.bundle.destinations) = 1
    /\ prev.out.result = "some"
    /\ Len(PrevChain) > 0

\* C11 as stated: after CGR commits a route whose limiting contact is k, the
\* next route call with identical arguments returns a route that does not use
\* k, or none.
C11_NextAvoidsLimiting ==
    CgrCommittedBefore =>
        \/ last.out.result = "none"
        \/ last.out.result = "some" /\ PrevLimiting \notin ChainContacts(Dest)

\* C11: after CGR commits a route whose limiting contact is k, a next route
\* call with identical arguments that does not reuse a route of the routing
\* table but runs the pathfinding returns no route that uses k.
C11_SearchAvoidsLimiting ==
    (CgrCommittedBefore /\ last.origin = "search" /\ last.out.result = "some")
        => PrevLimiting \notin ChainContacts(Dest)

C11_Witness ==
    /\ CgrCommittedBefore /\ last.origin = "search" /\ last.out.result = "some"
    /\ PrevLimiting \notin ChainContacts(Dest)
    /\ Len(last.out.chains[Dest]) > 0

\* what a RoutingOutput shows: the first-hop contacts with their destinations
\* and, for each destination, the contacts and arrival times of its chain
Shown(out) ==
    [result |-> out.result, first_hops |-> out.first_hops,
     chains |-> [n \in Nodes |->
                    [i \in 1..Len(out.chains[n]) |->
                        [via |-> out.chains[n][i].via,
                         at_time |-> out.chains[n][i].at_time]]]]

BothReturned ==
    /\ SameArguments
    /\ prev.out.result \in {"some", "none"}
    /\ last.out.result \in {"some", "none"}

\* C12 as stated: two back-to-back route calls with identical arguments return
\* the same first-hop contacts and the same arrival time at every stage.
C12_SameOutputTwice ==
    BothReturned => Shown(last.out) = Shown(prev.out)

\* C12: two back-to-back route calls with identical arguments, the first of
\* which booked no volume on any contact, return the same first-hop contacts
\* and the same arrival time at every stage.
C12_SameOutputUnbooked ==
    (BothReturned /\ last.pre_queue = prev.pre_queue)
        => Shown(last.out) = Shown(prev.out)

C12_Witness ==
    /\ BothReturned /\ last.pre_queue = prev.pre_queue
    /\ last.out.result = "some" /\ last.origin = "stored"
    /\ Unicast /\ Len(last.out.chains[Dest]) >= 2
    /\ Shown(last.out) = Shown(prev.out)

\* -------------------------------------------------------------------- guard
\* the limit the guard held for the destination when the last call was made
HeldLimit == last.pre_limits[Dest]

\* C13: when the SPSN guard holds a limit L for the destination of a unicast
\* request, the guard aborts the request exactly when its size is >= L: such
\* a request returns none without pathfinding, and a request of size smaller
\* than L is not aborted by the guard.
C13_GuardAbortsFromLimit ==
    (cfg.router = "spsn" /\ last.called /\ Unicast /\ HeldLimit # -1) =>
        /\ last.origin = "guard" <=> last.bundle.size >= HeldLimit
        /\ last.bundle.size >= HeldLimit => last.out.result = "none"

\* ---------------------------------------------------------------- multicast
\* the destinations of a call's bundle that a feasible sequence of contacts
\* reaches, with the bookings the call found and the nodes it was told to avoid
ReachedBy(call) ==
    {d \in SeqToSet(call.bundle.destinations) :
        \E l \in Feasible(call.t, call.source, call.bundle, call.pre_queue,
                          SeqToSet(call.excluded)) : l.node = d}

\* the call reached some destinations of its multi-destination bundle, not all
PartlyReached(call) ==
    /\ cfg.router = "spsn"
    /\ call.called
    /\ Len(call.bundle.destinations) > 1
    /\ ReachedBy(call) # {}
    /\ ReachedBy(call) # SeqToSet(call.bundle.destinations)

\* the last call asks for one destination the call before it did not reach
FollowsForUnreached ==
    /\ PartlyReached(prev)
    /\ Unicast
    /\ Dest \in SeqToSet(prev.bundle.destinations) \ ReachedBy(prev)
    /\ last.source = prev.source /\ last.t = prev.t /\ last.excluded = prev.excluded
    /\ last.bundle.size = prev.bundle.size
    /\ last.bundle.expiration = prev.bundle.expiration

\* C14: for a multi-destination bundle whose tree reaches only some
\* destinations, SPSN route returns an output whose first hops list exactly
\* the reached destinations, each under one first hop, and a following route
\* for an unreached destination alone returns none.
C14_ListsExactlyReached ==
    /\ PartlyReached(last) =>
          /\ last.out.result = "some"
          /\ Listed(last.out.first_hops) = ReachedBy(last)
          /\ \A g, h \in last.out.first_hops : g # h => g.dests \cap h.dests = {}
    /\ FollowsForUnreached => last.out.result = "none"

C14_Witness ==
    /\ FollowsForUnreached
    /\ Cardinality(ReachedBy(prev)) = 2
    /\ Listed(prev.out.first_hops) = ReachedBy(prev)
    /\ last.out.result = "none"

\* ---------------------------------------------------------------------- MPT
\* the labels of a vector of stage ids
LabelsOf(routes) == [i \in 1..Len(routes) |-> mpt.stages[routes[i]]]

\* label a is no worse than label b in arrival time and in hop count
Dominates(a, b) == a.at_time <= b.at_time /\ a.hop_count <= b.hop_count

\* C19: after every try_insert of an MPT pathfinding, the vector of labels of
\* each node is strictly increasing under Distance::cmp and no label in it
\* has both at_time <= and hop_count <= those of another label in it.
C19_VectorsParetoSorted ==
    mpt.pc = "run" =>
        \A n \in Nodes :
            LET v == LabelsOf(mpt.by_destination[n]) IN
            /\ \A i \in 1..(Len(v) - 1) : Distance_cmp(mpt.D, v[i], v[i + 1]) = -1
            /\ \A i, j \in 1..Len(v) : i # j => ~Dominates(v[i], v[j])

C19_Witness ==
    /\ mpt.pc = "run" /\ mpt.ins.done /\ mpt.ins.id # 0
    /\ Len(mpt.ins.before) >= 1
    /\ Len(mpt.ins.after) >= 2

\* C20: try_insert disables and removes an existing label only if the
\* inserted label dominates it; every existing label the inserted label does
\* not dominate stays in the node's vector and stays enabled.
C20_OnlyDominatedRemoved ==
    (mpt.ins.done /\ mpt.ins.id # 0) =>
        \A k \in 1..Len(mpt.ins.before) :
            LET id == mpt.ins.before[k] IN
            \/ Dominates(mpt.ins.proposition, mpt.stages[id])
            \/ /\ \E j \in 1..Len(mpt.ins.after) : mpt.ins.after[j] = id
               /\ ~mpt.stages[id].is_disabled

\* ------------------------------------------------ the dijkstra_accuracy run
Stop(to_node, at_time, hop_count) ==
    [to_node |-> to_node, at_time |-> at_time, hop_count |-> hop_count]

\* the three pathfinders have answered the example's question: the plan with
\* the two routes to node 3, a bundle of size 0 for node 3, time 0, a
\* multigraph that served no call before
AccuracyRun ==
    /\ mpt.pc = "done"
    /\ CP = PlanAccuracy
    /\ mpt.D = "SABR"
    /\ mpt.bundle.destinations = << 3 >> /\ mpt.bundle.size = 0
    /\ mpt.t = 0
    /\ calls = 1
    /\ \A n \in Nodes : ~excluded[n]

\* C15: on the plan with the routes 0->1->2->3 (node 2 at t=10) and 0->2->3
\* (node 2 at t=25) to node 3, node parenting returns the 3-hop route,
\* contact parenting and MPT return the 2-hop route, and all arrive at t=30.
C15_AccuracyRoutes ==
    AccuracyRun =>
        /\ mpt.node_parenting[3] =
               << Stop(0, 0, 0), Stop(1, 0, 1), Stop(2, 10, 2), Stop(3, 30, 3) >>
        /\ mpt.contact_parenting[3] = << Stop(0, 0, 0), Stop(2, 25, 1), Stop(3, 30, 2) >>
        /\ mpt.out[3] = << Stop(0, 0, 0), Stop(2, 25, 1), Stop(3, 30, 2) >>

C15_Witness ==
    /\ AccuracyRun
    /\ ~mpt.is_tree_output
    /\ Len(mpt.node_parenting[3]) = 4
    /\ Len(mpt.out[3]) = 3

\* ------------------------------------------------------- chains of stages
\* the chains of the output the last call returned, one per listed destination
LastChains == {last.out.chains[d] : d \in Listed(last.out.first_hops)}

\* C16: in a committed route at_time never decreases from the source to the
\* destination: the first stage is not before the time of the call, where the
\* source stage is, and every later stage is not before its parent.
C16_AtTimeNonDecreasing ==
    last.out.result = "some" =>
        \A ch \in LastChains :
            /\ Len(ch) > 0 => ch[1].at_time >= last.t
            /\ \A i \in 1..(Len(ch) - 1) : ch[i + 1].at_time >= ch[i].at_time

C16_Witness ==
    /\ last.out.result = "some"
    /\ last.t > 0
    /\ \E ch \in LastChains :
          /\ Len(ch) >= 2
          /\ ch[1].at_time >= last.t
          /\ ch[2].at_time > ch[1].at_time

\* C17: the expiration of a destination stage is <= the end of every contact
\* on its chain back to the source.
C17_ExpirationWithinContacts ==
    last.out.result = "some" =>
        \A ch \in LastChains :
            \A i \in 1..Len(ch) : ch[Len(ch)].expiration <= CP[ch[i].via].end

C17_Witness ==
    /\ last.out.result = "some"
    /\ \E ch \in LastChains :
          /\ Len(ch) >= 2
          /\ CP[ch[1].via].end < CP[ch[Len(ch)].via].end
          /\ ch[Len(ch)].expiration <= CP[ch[1].via].end

\* ------------------------------------------------------------------ cursors
\* C18: across route calls with non-decreasing current_time, no receiver's
\* next cursor moves backward.
C18_CursorNeverBackward ==
    [][\A p \in Pairs : next'[p] >= next[p]]_vars

C18_Witness ==
    /\ last.called /\ prev.called
    /\ prev.t <= last.t
    /\ \E p \in Pairs : next[p] > last.pre_next[p]

\* ------------------------------------------------- managed contact claims
\* C21: an EVL manager (EVLManager of contact_manager and of
\* contact_manager/legacy, PEVLManager) admits a bundle at time t exactly when
\* its size is at most the contact's volume minus the size of the committed
\* bundles that charge the bundle's priority level and the transmission from
\* max(t, start) ends within the contact, and then it returns tx_start =
\* max(t, start), tx_end = tx_start + size / rate, arrival = tx_end + delay;
\* this in every state, the one right after try_new included.
C21_EvlAdmission ==
    (cm.pc = "built" /\ cm.info.rate > 0
        /\ cm.m.name \in {"EVL", "legacy::EVLManager", "legacy::PEVLManager"}) =>
    \A bundle \in CmBundles, t \in CmTimes :
        bundle.priority < cm.m.prio_count =>
        LET RECURSIVE Charged(_)
            Charged(i) == IF i = 0 THEN 0
                          ELSE Charged(i - 1)
                               + IF cm.booked[i].priority >= bundle.priority
                                 THEN cm.booked[i].size ELSE 0
            data == manager_dry_run_tx(cm, t, bundle)
            tx_start == Max(t, cm.info.start)
            tx_end == tx_start + (bundle.size \div cm.info.rate)
        IN  /\ data.ok <=>
                  /\ bundle.size <= (cm.info.end - cm.info.start) * cm.info.rate
                                       - Charged(Len(cm.booked))
                  /\ tx_end <= cm.info.end
            /\ data.ok => /\ data.tx_start = tx_start
                          /\ data.tx_end = tx_end
                          /\ data.arrival = tx_end + cm.info.delay

\* C22: on a fresh PEVLManager contact of volume 100, schedule_tx of a bundle
\* of size 90 and priority 0 commits it and leaves the bookings 90, 0, 0;
\* then a bundle of size 20 is admitted at priority 1 and refused at
\* priority 0.
C22_PriorityLevelAdmission ==
    (/\ cm.pc = "built" /\ cm.m.name = "legacy::PEVLManager"
     /\ cm.info = [start |-> 0, end |-> 100, rate |-> 1, delay |-> 0]
     /\ cm.ops = 1 /\ cm.op.name = "schedule_tx"
     /\ cm.op.size = 90 /\ cm.op.priority = 0 /\ cm.op.at_time = 0) =>
    /\ cm.op.data.ok
    /\ cm.queue_size = << 90, 0, 0 >>
    /\ manager_dry_run_tx(cm, 0, [size |-> 20, priority |-> 1]).ok
    /\ ~manager_dry_run_tx(cm, 0, [size |-> 20, priority |-> 0]).ok

\* C23: on a QD contact with rate 1, delay 0, window [0, 100] and 20 booked,
\* a bundle of size 20 presented at t = 15 gets tx_start 20, tx_end 40 and
\* arrival 40; once it is scheduled, a second bundle of size 20 gets tx_start
\* 40 and arrival 60.
C23_QueueDelayExample ==
    (/\ cm.pc = "built" /\ cm.m.add_delay /\ cm.m.auto_update
     /\ cm.info = [start |-> 0, end |-> 100, rate |-> 1, delay |-> 0]
     /\ cm.queue_size[1] = 20) =>
    LET bundle == [size |-> 20, priority |-> 0]
        first == manager_dry_run_tx(cm, 15, bundle)
        then == manager_schedule_tx(cm, 15, bundle)
        second == manager_dry_run_tx(then, 15, bundle)
    IN  /\ first.ok /\ first.tx_start = 20 /\ first.tx_end = 40 /\ first.arrival = 40
        /\ second.ok /\ second.tx_start = 40 /\ second.arrival = 60

\* C24: for an ETO manager (ETOManager of contact_manager and of
\* contact_manager/legacy, PETOManager), after any sequence of schedule_tx,
\* enqueue and dequeue calls, the booked volume of every priority level equals
\* the total size of the bundles that charge the level and were enqueued and
\* not yet dequeued.
C24_EtoBookedIsQueued ==
    (cm.pc = "built" /\ cm.info.rate > 0 /\ ~cm.m.auto_update) =>
    \A p \in 0..(cm.m.prio_count - 1) :
        LET RECURSIVE Queued(_)
            Queued(i) == IF i = 0 THEN 0
                         ELSE Queued(i - 1) + IF cm.queued[i].priority >= p
                                              THEN cm.queued[i].size ELSE 0
        IN  cm.queue_size[p + 1] = Queued(Len(cm.queued))

\* ------------------------------------------------------- later route claims
\* C25: a route call made at a current_time after the bundle's expiration
\* returns none, under SPSN and CGR, for one destination and for several.
C25_ExpiredGivesNone ==
    (last.called /\ last.t > last.bundle.expiration) => last.out.result = "none"

C27_SelectBestLiveRoute ==
    cfg.router = "cgr" =>
    \A bundle \in Bundles, t \in Times, excl \in Exclusions :
        (Len(bundle.destinations) = 1 /\ t >= now) =>
        LET dest == bundle.destinations[1]
            rs == tables[dest]
            W1 == [Graph EXCEPT !.excluded = prepare_for_exclusions_sorted(@, excl)]
            sel == table_select(rs, 1, << >>, 0, bundle, t, W1)
            D(i) == dry_run_unicast_path_with_exclusions(bundle, t, rs[i].stages,
                        rs[i].source_stage, rs[i].destination_stage, W1)
            live == {i \in 1..Len(rs) :
                        t <= rs[i].stages[rs[i].destination_stage].expiration}
            pass == {i \in 1..Len(rs) : D(i).ok}
            after(i) == [rs[i] EXCEPT !.stages = D(i).stages]
            label(i) == D(i).stages[D(i).route]
        IN  /\ Len(sel.routes) = Cardinality(live)
            /\ \A i \in live : \E k \in 1..Len(sel.routes) : sel.routes[k] = after(i)
            /\ sel.best = 0 <=> pass = {}
            /\ sel.best # 0 =>
                   \E i \in pass \cap live :
                       /\ sel.routes[sel.best] = after(i)
                       /\ \A j \in pass : SABR_cmp(label(i), label(j)) <= 0

\* a table holding an expired route next to a live one that is proposed
C27_Witness ==
    /\ cfg.router = "cgr"
    /\ \E bundle \in Bundles, t \in Times :
           /\ Len(bundle.destinations) = 1 /\ t >= now
           /\ LET rs == tables[bundle.destinations[1]]
                  sel == table_select(rs, 1, << >>, 0, bundle, t, Graph)
              IN  /\ Len(sel.routes) < Len(rs)
                  /\ sel.best # 0
    /\ \E bundle \in Bundles, t \in Times :
           /\ Len(bundle.destinations) = 1 /\ t >= now
           /\ LET rs == tables[bundle.destinations[1]]
                  D(i) == dry_run_unicast_path_with_exclusions(bundle, t, rs[i].stages,
                              rs[i].source_stage, rs[i].destination_stage, Graph)
              IN  \E i, j \in 1..Len(rs) :
                      /\ i < j /\ D(i).ok /\ D(j).ok
                      /\ SABR_cmp(D(j).stages[D(j).route], D(i).stages[D(i).route]) = -1

\* -------------------------------------------------- managed contact, later
\* C28: a contact that Contact::try_new yielded has start < end, a rate and a
\* delay that are not negative, and, under a SEG manager, rate segments and
\* delay segments that tile [info.start, info.end] without gap.
C28_BuiltContactIsValid ==
    cm.pc = "built" =>
        /\ cm.info.start < cm.info.end
        /\ cm.m.macro # "seg" => (cm.info.rate >= 0 /\ cm.info.delay >= 0)
        /\ cm.m.macro = "seg" =>
               /\ no_holes(cm.seg.rate_intervals, cm.info)
               /\ no_holes(cm.seg.delay_intervals, cm.info)

\* C29: under a SEG manager whose schedule calls each follow a successful dry
\* run with the same arguments, the free intervals are sorted by start,
\* pairwise disjoint and inside [info.start, info.end], and none of them
\* overlaps the interval [tx_start, tx_end] of a booked transmission.
C29_FreeIntervalsWellFormed ==
    (cm.pc = "built" /\ cm.m.macro = "seg" /\ cm.info.delay >= 0) =>
        LET free == cm.seg.free_intervals IN
        /\ \A i \in 1..Len(free) :
               /\ cm.info.start <= free[i].start
               /\ free[i].start <= free[i].end
               /\ free[i].end <= cm.info.end
        /\ \A i \in 1..(Len(free) - 1) : free[i].end <= free[i + 1].start
        /\ \A i \in 1..Len(free), b \in 1..Len(cm.booked) :
               \/ free[i].end <= cm.booked[b].tx_start
               \/ cm.booked[b].tx_end <= free[i].start

\* ---------------------------------------------------- later router claims
\* C30: every CGR route call for a single-destination bundle comes back: no
\* call is left in a retry loop whose passes find a route, fail its dry run
\* and suppress no new contact.
C30_CgrRouteTerminates ==
    (cfg.router = "cgr" /\ last.called /\ Len(last.bundle.destinations) = 1) =>
        last.out.result # "diverge"

\* ------------------------------------------------------ pathfinding claims
\* C31: every get_next call that has started returns (the node- and
\* contact-parenting searches of the same question are run to their end when
\* the call starts, the MPT search step by step), and a label that MPT pushes
\* is, against every label its node already holds, either better under the
\* distance or strictly better on the other axis.
C31_GetNextTerminates ==
    /\ (mpt.pc = "run") ~> (mpt.pc = "done")
    /\ [](mpt.ins.done /\ mpt.ins.id # 0 =>
             \A k \in 1..Len(mpt.ins.before) :
                 \/ Distance_cmp(mpt.D, mpt.ins.proposition,
                                 mpt.stages[mpt.ins.before[k]]) = -1
                 \/ can_retain(mpt.D, mpt.ins.proposition,
                               mpt.stages[mpt.ins.before[k]]))

\* a call has returned after a disabled label was popped and skipped and a
\* label was pushed to a node that already held one
C31_Witness ==
    /\ mpt.pc = "done"
    /\ \E i \in 1..Len(mpt.stages) : mpt.stages[i].is_disabled
    /\ \E n \in Nodes : Len(mpt.by_destination[n]) >= 1 /\ mpt.out[n] # << >>
    /\ mpt.node_parenting # NoRoutes

\* C32: on the bookings of every reachable state, with no contact or one more
\* contact suppressed, try_make_hop from any starting index and sender time
\* gives no hop exactly when no unsuppressed contact of the pair from that
\* index on accepts the bundle, and otherwise a hop over an accepting contact
\* whose arrival tx_end + delay is the smallest among the accepting ones.
C32_HopHasEarliestArrival ==
    \A pair \in {<< CP[c].tx, CP[c].rx >> : c \in ContactIds},
       bundle \in {MkBundle(<< 3 >>, 2, 100), MkBundle(<< 3 >>, 0, 100)},
       t \in {0, 4, 12}, extra \in {0} \cup ContactIds :
        LET contacts == contacts_to_receiver(pair[1], pair[2])
            supp == [c \in ContactIds |-> suppressed[c] \/ c = extra]
            sndr == RouteStage_new(t, pair[1], 0, 0)
            hop(c) == dry_run_tx(cfg.mgr, CP[c], t, bundle, queue_size[c])
        IN  \A first \in 0..(Len(contacts) - 1) :
                LET accepting == {i \in (first + 1)..Len(contacts) :
                                     ~supp[contacts[i]] /\ hop(contacts[i]).ok}
                    r == try_make_hop(first, sndr, 1, bundle, contacts, queue_size, supp)
                IN  /\ r.ok <=> accepting # {}
                    /\ r.ok =>
                          /\ \E i \in accepting : r.stage.via = contacts[i]
                          /\ r.stage.at_time = hop(r.stage.via).tx_end
                                                + hop(r.stage.via).delay
                          /\ \A i \in accepting :
                                 r.stage.at_time <= hop(contacts[i]).tx_end
                                                    + hop(contacts[i]).delay

\* bookings under which the first contact of a pair refuses the bundle and
\* the second carries it, and a pair whose first contact carries the bundle
\* while the second, which accepts it too, starts after that arrival
C32_Witness ==
    \E pair \in {<< CP[c].tx, CP[c].rx >> : c \in ContactIds}, t \in {0, 4, 12} :
        LET bundle == MkBundle(<< 3 >>, 2, 100)
            contacts == contacts_to_receiver(pair[1], pair[2])
            sndr == RouteStage_new(t, pair[1], 0, 0)
            hop(c) == dry_run_tx(cfg.mgr, CP[c], t, bundle, queue_size[c])
            r == try_make_hop(0, sndr, 1, bundle, contacts, queue_size, suppressed)
            free == try_make_hop(0, sndr, 1, bundle, contacts,
                                 [c \in ContactIds |-> 0], suppressed)
        IN  /\ Len(contacts) >= 2
            /\ queue_size[contacts[1]] > 0
            /\ ~hop(contacts[1]).ok
            /\ r.ok /\ r.stage.via = contacts[2]
            /\ free.ok /\ free.stage.via = contacts[1]
            /\ CP[contacts[2]].start > free.stage.at_time

\* C33: on the cursors of every reachable state, for every pair of nodes and
\* every current_time, lazy_prune_and_get_first_idx gives the index of the
\* first contact of the pair's list whose end is after current_time, and none
\* when the list has no such contact.
C33_FirstLiveContact ==
    \A pair \in Pairs, t \in {0, 4, 12, 20} :
        LET contacts == contacts_to_receiver(pair[1], pair[2])
            live == {i \in 0..(Len(contacts) - 1) : CP[contacts[i + 1]].end > t}
            r == lazy_prune_and_get_first_idx(next[pair], contacts, t)
        IN  /\ r.found <=> live # {}
            /\ r.found => r.idx \in live /\ \A i \in live : r.idx <= i

\* ---------------------------------------------------- multicast commit claim
\* C34: after a route call for a bundle with several destinations returns an
\* output, every contact on the chain from the source to a listed destination
\* was scheduled exactly once and its booked volume grew by bundle.size once,
\* however many destinations are routed through it, and no other contact was
\* scheduled.
C34_EachStageScheduledOnce ==
    (last.out.result = "some" /\ Len(last.bundle.destinations) > 1) =>
        \A c \in ContactIds :
            LET times == Cardinality({i \in 1..Len(last.out.log) :
                                         last.out.log[i].contact = c})
                on_chain == \E d \in Listed(last.out.first_hops) : c \in ChainContacts(d)
            IN  /\ times = IF on_chain THEN 1 ELSE 0
                /\ queue_size[c] = last.pre_queue[c] + times * last.bundle.size

\* ------------------------------------------------ segmented contact claims
\* C35: a transmission a SEG manager has scheduled ends at the time at which
\* the rate of the rate segments, summed over [tx_start, tx_end], has carried
\* the whole bundle.
C35_TxEndIntegratesRate ==
    (cm.pc = "built" /\ cm.m.macro = "seg" /\ cm.info.delay >= 0
     /\ cm.op.name = "schedule_tx" /\ cm.op.data.ok) =>
        LET rates == cm.seg.rate_intervals
            RECURSIVE carried(_)
            carried(i) ==
                IF i > Len(rates) THEN 0
                ELSE carried(i + 1)
                     + rates[i].val
                       * Max(0, Min(rates[i].end, cm.op.data.tx_end)
                                - Max(rates[i].start, cm.op.data.tx_start))
        IN  carried(1) = cm.op.size

C37_NoDisabledLabelReturned ==
    mpt.pc = "done" =>
        LET RECURSIVE chain_enabled(_, _)
            chain_enabled(stages, id) ==
                id = 0 \/ (~stages[id].is_disabled /\ chain_enabled(stages, stages[id].parent))
            excl == SelectSeq([i \in 1..NodeCount |-> i - 1], LAMBDA n : excluded[n])
            source == mpt.stages[1].to_node
            of_kind(parenting) ==
                pf_get_next(parenting, mpt.is_tree_output, mpt.is_tree_output, mpt.t,
                            source, mpt.bundle, excl, Graph).tree
        IN  /\ mpt.by_destination[source] = << 1 >>
            /\ \A n \in Nodes : \A k \in 1..Len(mpt.by_destination[n]) :
                  chain_enabled(mpt.stages, mpt.by_destination[n][k])
            /\ \A parenting \in {"node", "contact"} :
                  \A tree \in {of_kind(parenting)} :
                      /\ tree.by_destination[source] = 1
                      /\ \A n \in Nodes :
                            chain_enabled(tree.stages, tree.by_destination[n])

\* A returned tree whose search disabled a label, under each kind of
\* pathfinder, and which reaches a node over two hops.
C37_Witness ==
    /\ mpt.pc = "done" /\ mpt.is_tree_output
    /\ \E i \in 1..Len(mpt.stages) : mpt.stages[i].is_disabled
    /\ \E n \in Nodes : Len(mpt.out[n]) >= 3
    /\ \A parenting \in {"node", "contact"} :
          \E tree \in {pf_get_next(parenting, TRUE, TRUE, mpt.t, mpt.stages[1].to_node,
                                   mpt.bundle,
                                   SelectSeq([i \in 1..NodeCount |-> i - 1], LAMBDA n : excluded[n]),
                                   Graph).tree} :
              \E i \in 1..Len(tree.stages) : tree.stages[i].is_disabled

\* ------------------------------------------------------ the requested source
\* C38: whatever route calls an SPSN router has served, the output of its next
\* route(source, ...) call starts at the requested source: the tx node of
\* every first-hop contact is `source`.
C38_OutputStartsAtSource ==
    (cfg.router = "spsn" /\ Alive) =>
        \A source \in Nodes, excl \in Exclusions :
            \A bundle \in {MkBundle(<< 3 >>, 2, 100), MkBundle(<< 2, 3 >>, 2, 100)} :
                \A r \in {spsn_route(source, bundle, now, excl,
                                     [W |-> Graph, trees |-> trees,
                                      limits |-> known_limits])} :
                    \A h \in r.out.first_hops : CP[h.contact].tx = source

\* -------------------------------------------------- queue-delay transmissions
\* C39: on a QD contact the transmissions committed by successive schedule_tx
\* calls never overlap: each committed interval begins at or after the tx_end
\* of every transmission committed before it, whatever at_time the calls used.
C39_QdTransmissionsDisjoint ==
    (cm.pc = "built" /\ cm.m.name = "QD" /\ cm.info.delay >= 0) =>
        \A j \in 1..Len(cm.booked) : \A i \in 1..(j - 1) :
            cm.booked[j].tx_start >= cm.booked[i].tx_end

====
